---- MODULE Spec2Model ----
(***************************************************************************)
(* Deck scoring and candidate generation engine of clash-deck-maker:       *)
(* the Deck Scorer (services/deckScoring.ts), the Card Ranker, Candidate   *)
(* Generator and Swap Advisor (services/deckCandidates.ts), the autofill   *)
(* service (autofill.ts) and the /deck/optimize route.                     *)
(*                                                                         *)
(* Numbers.  The code computes in IEEE doubles; the model computes the     *)
(* same quantities as exact fractions:                                     *)
(*   - elixir averages and overall scores are kept in tenths (the code     *)
(*     rounds both to one decimal), so 3.5 elixir is 35 and 61.3 is 613;   *)
(*   - the four sub-score totals are kept in units of 1/Unit;              *)
(*   - the standard deviation of calculateLevelFitScore is irrational and  *)
(*     is taken to 1/100 (floor).                                          *)
(* A card id is the card's position in the catalog; any other id is        *)
(* unknown to the catalog.                                                 *)
(***************************************************************************)
EXTENDS Integers, Sequences, FiniteSets, TLC

VARIABLES
    op,              \* the operation being served
    pc,              \* its position
    cardIds,         \* its id-list argument (cardIds / startingCards / deck / currentCards)
    playerLevels,    \* optional PlayerCardLevel[]; <<>> when not supplied
    preferredArena,  \* optional arena ceiling; NoArena when not supplied
    maxCandidates,   \* opts.maxCandidates
    maxSwaps,        \* body.maxSwaps
    config,          \* ScoringConfig
    candidates,      \* generateDeckCandidates: accepted candidates
    usedFirstCards,  \* generateDeckCandidates: first added card of each accepted candidate
    tick,            \* parity of the number of diversity-loop iterations executed
    swapSuggestions, \* /deck/optimize: ranked suggestions
    optimizedDeck,   \* /deck/optimize: working deck
    swapPlan,        \* /deck/optimize: applied swaps
    result,          \* the value returned
    rankedCard,      \* scoreCardForRole: id of the card being scored
    rankedRole,      \* scoreCardForRole: the role it is scored for
    storeDeck,       \* store: currentDeck, the deck being built (card ids)
    lastAutofillResult,  \* store: AutofillResponse | null
    lastOptimizeResult,  \* store: OptimizeResponse | null
    isAutofilling,   \* store: loading flag
    isOptimizing,    \* store: loading flag
    error,           \* store: string | null
    inFlight         \* store: the api calls awaiting their response

vars == <<op, pc, cardIds, playerLevels, preferredArena, maxCandidates, maxSwaps,
          config, candidates, usedFirstCards, tick, swapSuggestions,
          optimizedDeck, swapPlan, result, rankedCard, rankedRole,
          storeDeck, lastAutofillResult, lastOptimizeResult, isAutofilling,
          isOptimizing, error, inFlight>>

\* the state of the client store
storeVars == <<storeDeck, lastAutofillResult, lastOptimizeResult, isAutofilling,
               isOptimizing, error, inFlight>>

----------------------------------------------------------------------------
(* Bounds of the checked instances *)

MaxCandidatesBound == 3
MaxSwapsBound == 3

\* preferredArena === undefined
NoArena == -1

\* a nullable value: null is the empty sequence, a value v is <<v>>
None == <<>>
Some(v) == <<v>>

----------------------------------------------------------------------------
(* Arithmetic helpers *)

Min(a, b) == IF a < b THEN a ELSE b
Max(a, b) == IF a > b THEN a ELSE b
Abs(a) == IF a < 0 THEN -a ELSE a

\* Math.round(n / d) for d > 0: round half up
RoundDiv(n, d) == (2 * n + d) \div (2 * d)

RECURSIVE SqrtSearch(_, _, _)
SqrtSearch(x, lo, hi) ==
    IF lo >= hi THEN lo
    ELSE LET mid == (lo + hi + 1) \div 2
         IN IF mid * mid <= x THEN SqrtSearch(x, mid, hi)
                              ELSE SqrtSearch(x, lo, mid - 1)

\* floor(Math.sqrt(x)) for 0 <= x < 2^30
Isqrt(x) == SqrtSearch(x, 0, 32767)

RECURSIVE SumSeq(_)
SumSeq(s) == IF s = <<>> THEN 0 ELSE Head(s) + SumSeq(Tail(s))

Range(s) == {s[i] : i \in DOMAIN s}


----------------------------------------------------------------------------
(* Card catalog (data/loader) *)

\* The loader fills allCards from cards.json, a data file that is not part of
\* the source tree; a catalog of 18 cards over arenas 0..3, not
\* sorted by arena, stands for it.
\* A card's id is its position in the catalog.

Card(id, name, elixir, rarity, arena, roles) ==
    [id |-> id, name |-> name, elixir |-> elixir, rarity |-> rarity,
     arena |-> arena, roles |-> roles]

allCards == <<
    Card(1,  "Giant",       5, "rare",      1, <<"win_condition", "tank">>),
    Card(2,  "Archers",     3, "common",    0, <<"air_targeting", "support">>),
    Card(3,  "Arrows",      3, "common",    1, <<"small_spell", "anti_swarm">>),
    Card(4,  "Fireball",    4, "rare",      0, <<"big_spell">>),
    Card(5,  "Knight",      3, "common",    0, <<"tank", "support">>),
    Card(6,  "Musketeer",   4, "rare",      2, <<"air_targeting", "tank_killer", "support">>),
    Card(7,  "Mini PEKKA",  4, "rare",      0, <<"tank_killer">>),
    Card(8,  "Skeletons",   1, "common",    0, <<"cycle", "swarm">>),
    Card(9,  "Hog Rider",   4, "rare",      2, <<"win_condition">>),
    Card(10, "Zap",         2, "common",    2, <<"small_spell">>),
    Card(11, "Valkyrie",    4, "rare",      2, <<"anti_swarm", "support">>),
    Card(12, "Ice Spirit",  1, "common",    3, <<"cycle">>),
    Card(13, "Rocket",      6, "rare",      3, <<"big_spell">>),
    Card(14, "PEKKA",       7, "epic",      3, <<"tank_killer", "tank">>),
    Card(15, "Baby Dragon", 4, "epic",      3, <<"air_targeting", "anti_swarm", "support">>),
    Card(16, "Mega Minion", 3, "rare",      2, <<"air_targeting", "tank_killer", "support">>),
    Card(17, "Lava Hound",  7, "legendary", 3, <<"win_condition">>),
    Card(18, "Golden Knight", 4, "champion", 3, <<"tank">>)
>>

CardIdSet == 1..Len(allCards)

\* an id the catalog does not know
UnknownId == 0

getCardsById(ids) ==
    LET known == SelectSeq(ids, LAMBDA id : id \in CardIdSet)
    IN [i \in 1..Len(known) |-> allCards[known[i]]]

getAllCards == allCards

HasRole(card, role) == \E i \in DOMAIN card.roles : card.roles[i] = role

getCardsByRole(role, cards) == SelectSeq(cards, LAMBDA c : HasRole(c, role))

\* cardsByArena.get(i): the catalog cards of arena i, in catalog order
getCardsByArena(arenaId) == SelectSeq(allCards, LAMBDA c : c.arena = arenaId)

RECURSIVE UnlockedUpTo(_, _)
UnlockedUpTo(i, maxArenaId) ==
    IF i > maxArenaId THEN <<>>
    ELSE getCardsByArena(i) \o UnlockedUpTo(i + 1, maxArenaId)

UnlockedOneArenaMore(maxArenaId) == UnlockedUpTo(0, maxArenaId + 1)

getCardsUnlockedByArena(maxArenaId) == UnlockedUpTo(0, maxArenaId)

\* Math.round((totalElixir / cards.length) * 10) / 10, in tenths
AverageOf(cards) ==
    IF Len(cards) = 0 THEN 0
    ELSE RoundDiv(10 * SumSeq([i \in DOMAIN cards |-> cards[i].elixir]), Len(cards))

\* the mean over all ids of the list, unknown ids counted in the divisor
averageOverAllIds(ids) ==
    IF Len(getCardsById(ids)) = 0 THEN 0
    ELSE RoundDiv(10 * SumSeq([i \in DOMAIN getCardsById(ids) |->
                                 getCardsById(ids)[i].elixir]), Len(ids))

calculateAverageElixir(ids) == AverageOf(getCardsById(ids))

----------------------------------------------------------------------------
(* Deck Scorer (services/deckScoring.ts) *)

\* denominator of the sub-score totals: divisible by every deck size 1..8
\* and by 14 * n / 50, so that versatility and levelScore are exact
Unit == 5880

DEFAULT_SCORING_CONFIG ==
    [targetElixir |-> 35, minElixir |-> 26, maxElixir |-> 43,
     weights |-> [coverage |-> 35, curve |-> 25, role |-> 25, levelFit |-> 15]]

REQUIRED_ROLES ==
    <<"win_condition", "small_spell", "big_spell", "air_targeting", "tank_killer">>

AnyHasRole(cards, role) == \E i \in DOMAIN cards : HasRole(cards[i], role)

\* total = (coveredCount / REQUIRED_ROLES.length) * 100
CoverageOf(missingRoles) ==
    [total |-> ((Len(REQUIRED_ROLES) - Len(missingRoles)) * 100 * Unit)
                   \div Len(REQUIRED_ROLES),
     missingRoles |-> missingRoles]

Reverse(s) == [i \in DOMAIN s |-> s[Len(s) + 1 - i]]

\* the missing roles collected from the last required role to the first
CoverageLastRoleFirst(cards) ==
    CoverageOf(Reverse(SelectSeq(REQUIRED_ROLES, LAMBDA r : ~AnyHasRole(cards, r))))

calculateCoverageScore(cards) ==
    CoverageOf(SelectSeq(REQUIRED_ROLES, LAMBDA r : ~AnyHasRole(cards, r)))

\* the curve score without the heavy-card penalty
CurveOfNoHeavyPenalty(averageElixir, cycleCardCount, heavyCardCount, cfg) ==
    [total |-> Max(0, Min(100,
                   (IF averageElixir >= cfg.minElixir /\ averageElixir <= cfg.maxElixir
                    THEN 60 ELSE 30)
                   - Min(Abs(averageElixir - cfg.targetElixir), 20)
                   + (IF cycleCardCount >= 2 /\ cycleCardCount <= 4 THEN 20
                      ELSE IF cycleCardCount = 1 \/ cycleCardCount = 5 THEN 10
                      ELSE 0))) * Unit,
     averageElixir |-> averageElixir,
     isInRange |-> averageElixir >= cfg.minElixir /\ averageElixir <= cfg.maxElixir,
     cycleCardCount |-> cycleCardCount, heavyCardCount |-> heavyCardCount]

\* the curve score of a non-empty deck from its average and its card counts
CurveOf(averageElixir, cycleCardCount, heavyCardCount, cfg) ==
    LET isInRange == averageElixir >= cfg.minElixir /\ averageElixir <= cfg.maxElixir
        distanceFromTarget == Abs(averageElixir - cfg.targetElixir)
        base == IF isInRange THEN 60 ELSE 30
        distancePenalty == Min(distanceFromTarget, 20)
        cycleBonus == IF cycleCardCount >= 2 /\ cycleCardCount <= 4 THEN 20
                      ELSE IF cycleCardCount = 1 \/ cycleCardCount = 5 THEN 10
                      ELSE 0
        heavyPenalty == IF heavyCardCount > 2 THEN (heavyCardCount - 2) * 5 ELSE 0
        total == base - distancePenalty + cycleBonus - heavyPenalty
    IN [total |-> Max(0, Min(100, total)) * Unit,
        averageElixir |-> averageElixir, isInRange |-> isInRange,
        cycleCardCount |-> cycleCardCount, heavyCardCount |-> heavyCardCount]

calculateCurveScore(cards, cfg) ==
    IF Len(cards) = 0
    THEN [total |-> 0, averageElixir |-> 0, isInRange |-> FALSE,
          cycleCardCount |-> 0, heavyCardCount |-> 0]
    ELSE CurveOf(AverageOf(cards),
                 Len(SelectSeq(cards, LAMBDA c : c.elixir <= 3)),
                 Len(SelectSeq(cards, LAMBDA c : c.elixir >= 6)),
                 cfg)

\* the role score from the roles present and the three partial scores
RoleOf(cards, present, versatilityScore, synergyBonus) ==
    [total |-> Min(100 * Unit, Min(Cardinality(present) * 5, 35) * Unit
                               + versatilityScore + synergyBonus * Unit),
     roleDistribution |->
         [r \in present |-> Len(SelectSeq(cards, LAMBDA c : HasRole(c, r)))],
     versatilityScore |-> versatilityScore,
     synergyBonus |-> synergyBonus]

\* the role score with one synergy only: the first pair present counts
calculateRoleScoreOneSynergy(cards) ==
    RoleOf(cards,
           UNION {Range(cards[i].roles) : i \in DOMAIN cards},
           (Len(SelectSeq(cards, LAMBDA c : Len(c.roles) > 1)) * 30 * Unit)
               \div Max(Len(cards), 1),
           IF AnyHasRole(cards, "tank") /\ AnyHasRole(cards, "support") THEN 10
           ELSE IF AnyHasRole(cards, "swarm") /\ AnyHasRole(cards, "anti_swarm") THEN 5
           ELSE IF AnyHasRole(cards, "win_condition") /\ AnyHasRole(cards, "small_spell")
                THEN 10 ELSE 0)

calculateRoleScore(cards) ==
    RoleOf(cards,
           UNION {Range(cards[i].roles) : i \in DOMAIN cards},
           (Len(SelectSeq(cards, LAMBDA c : Len(c.roles) > 1)) * 30 * Unit)
               \div Max(Len(cards), 1),
           (IF AnyHasRole(cards, "tank") /\ AnyHasRole(cards, "support") THEN 10 ELSE 0)
         + (IF AnyHasRole(cards, "swarm") /\ AnyHasRole(cards, "anti_swarm") THEN 5 ELSE 0)
         + (IF AnyHasRole(cards, "win_condition") /\ AnyHasRole(cards, "small_spell")
            THEN 10 ELSE 0))

\* new Map(playerLevels.map(...)).get(id): the last entry for the id wins
LevelMapGet(levels, id) ==
    LET hits == {i \in DOMAIN levels : levels[i].cardId = id}
    IN IF hits = {} THEN 0
       ELSE levels[CHOOSE i \in hits : \A j \in hits : j <= i].level

\* a card absent from the level map counted at level 0
LevelOrZero(level) == level

\* levelMap.get(card.id) || 1
LevelOr1(level) == IF level = 0 THEN 1 ELSE level

CardLevels(cards, levels) ==
    [i \in DOMAIN cards |-> LevelOr1(LevelMapGet(levels, cards[i].id))]

\* levelScore + varianceScore - underleveledPenalty, before the clamp, from
\* the number of cards, the sum of their levels and the sum of the squares
LevelFitOf(n, sum, sumSq, underleveledCount) ==
    LET \* stddev = sqrt(n * sumSq - sum^2) / n
        sqrt100 == Isqrt(10000 * (n * sumSq - sum * sum))
        levelScore == (50 * Unit * sum) \div (14 * n)
        varianceScore == Max(0, 30 * Unit - (Unit * sqrt100) \div (10 * n))
        underleveledPenalty == Min(underleveledCount * 5, 20) * Unit
    IN [raw |-> levelScore + varianceScore - underleveledPenalty,
        underleveledCount |-> underleveledCount,
        averageLevel |-> RoundDiv(10 * sum, n)]

LevelStats(cardLevels) ==
    LevelFitOf(Len(cardLevels),
               SumSeq(cardLevels),
               SumSeq([i \in DOMAIN cardLevels |-> cardLevels[i] * cardLevels[i]]),
               Len(SelectSeq(cardLevels, LAMBDA l : l < 11)))

LevelFitRaw(cards, levels) == LevelStats(CardLevels(cards, levels))

\* Math.max(0, Math.min(100, x)) on a sub-score total
LevelFitNoClamp(x) == x
Clamp100(x) == Max(0, Min(100 * Unit, x))

LevelFitClamped(r) ==
    [total |-> Clamp100(r.raw),
     averageLevel |-> r.averageLevel,
     underleveledCount |-> r.underleveledCount]

calculateLevelFitScore(cards, levels) ==
    IF Len(levels) = 0 \/ Len(cards) = 0
    THEN [total |-> 50 * Unit, averageLevel |-> 0, underleveledCount |-> 0]
    ELSE LevelFitClamped(LevelFitRaw(cards, levels))

\* the DeckScore of four sub-scores: overall rounded to one decimal
DeckScoreOf(coverage, curve, role, levelFit, cfg) ==
    [overall |-> RoundDiv(coverage.total * cfg.weights.coverage
                          + curve.total * cfg.weights.curve
                          + role.total * cfg.weights.role
                          + levelFit.total * cfg.weights.levelFit,
                          10 * Unit),
     coverage |-> coverage, curve |-> curve, role |-> role, levelFit |-> levelFit]

scoreCards(cards, levels, cfg) ==
    DeckScoreOf(calculateCoverageScore(cards),
                calculateCurveScore(cards, cfg),
                calculateRoleScore(cards),
                calculateLevelFitScore(cards, levels),
                cfg)

scoreDeck(ids, levels, cfg) == scoreCards(getCardsById(ids), levels, cfg)

AdditionOf(currentOverall, newOverall) ==
    [score |-> newOverall,
     improvesScore |-> newOverall - currentOverall > 0,
     delta |-> newOverall - currentOverall]

scoreCardAddition(currentDeckIds, candidateCard, levels, cfg) ==
    AdditionOf(scoreDeck(currentDeckIds, levels, cfg).overall,
               scoreDeck(Append(currentDeckIds, candidateCard.id), levels, cfg).overall)

\* the missing roles, the last required role first
getMissingRolesLastFirst(ids) ==
    Reverse(calculateCoverageScore(getCardsById(ids)).missingRoles)

getMissingRoles(ids) == calculateCoverageScore(getCardsById(ids)).missingRoles

----------------------------------------------------------------------------
(* Card Ranker and Candidate Generator (services/deckCandidates.ts) *)

\* playerLevels.find((p) => p.cardId === id)?.level, 0 when not found
LevelFind(levels, id) ==
    LET hits == {i \in DOMAIN levels : levels[i].cardId = id}
    IN IF hits = {} THEN 0
       ELSE levels[CHOOSE i \in hits : \A j \in hits : i <= j].level

\* a rarity table that gives the legendary bonus of 1 as well
rarityScoresLegendaryOne(rarity) ==
    CASE rarity = "common" -> 3
      [] rarity = "rare" -> 2
      [] rarity = "epic" -> 1
      [] rarity = "legendary" -> 1
      [] OTHER -> 0

rarityScores(rarity) ==
    CASE rarity = "common" -> 3
      [] rarity = "rare" -> 2
      [] rarity = "epic" -> 1
      [] OTHER -> 0

\* the ranking score of a card for a role, in tenths
scoreCardForRole(card, role, currentDeck, levels, cfg) ==
    2 * scoreCardAddition(currentDeck, card, levels, cfg).delta
  + 10 * LevelFind(levels, card.id)
  + 10 * (Len(card.roles) - 1) * 2
  + 10 * rarityScores(card.rarity)
  + 10 * (IF role = "cycle" \/ role = "small_spell" THEN Max(0, 4 - card.elixir)
          ELSE IF role = "win_condition" \/ role = "tank"
               THEN (IF card.elixir > 3 THEN 2 ELSE 0)
               ELSE 0)

\* a descending sort that puts an element before its equals
RECURSIVE InsertDescBeforeEquals(_, _)
InsertDescBeforeEquals(sorted, e) ==
    IF sorted = <<>> THEN <<e>>
    ELSE IF Head(sorted).score > e.score
         THEN <<Head(sorted)>> \o InsertDescBeforeEquals(Tail(sorted), e)
         ELSE <<e>> \o sorted

\* Array.prototype.sort((a, b) => b.score - a.score): stable, descending
RECURSIVE InsertDesc(_, _)
InsertDesc(sorted, e) ==
    IF sorted = <<>> THEN <<e>>
    ELSE IF Head(sorted).score >= e.score
         THEN <<Head(sorted)>> \o InsertDesc(Tail(sorted), e)
         ELSE <<e>> \o sorted

RECURSIVE SortDesc(_)
SortDesc(s) ==
    IF s = <<>> THEN <<>>
    ELSE InsertDesc(SortDesc(SubSeq(s, 1, Len(s) - 1)), s[Len(s)])

\* Array.prototype.slice(from, to), 0-based, end exclusive
Slice(s, from, to) == SubSeq(s, from + 1, Min(to, Len(s)))

Includes(ids, id) == \E i \in DOMAIN ids : ids[i] = id

\* candidates.map(score), sort descending, slice(0, limit) with limit = 10
RankCards(cands, role, currentDeck, levels, cfg) ==
    Slice(SortDesc([i \in DOMAIN cands |->
                      [card |-> cands[i],
                       score |-> scoreCardForRole(cands[i], role, currentDeck,
                                                  levels, cfg)]]),
          0, 10)

RankNoDeckFilter(role, availableCards, currentDeck, levels, cfg) ==
    RankCards(getCardsByRole(role, availableCards), role, currentDeck, levels, cfg)

getRankedCardsForRole(role, availableCards, currentDeck, levels, cfg) ==
    RankCards(SelectSeq(getCardsByRole(role, availableCards),
                        LAMBDA c : ~Includes(currentDeck, c.id)),
              role, currentDeck, levels, cfg)

\* the selection made from a non-empty ranking
Selection(ranked, role) ==
    [card |-> ranked[1].card, role |-> role, alternatives |-> Slice(ranked, 1, 4)]

\* the first nullable value if it is not null, else the second
OrElse(first, second) == IF first # None THEN first ELSE second

\* the first role of the list that has a ranked card, with its selection
RECURSIVE FirstRanked(_, _, _, _, _)
SelectionOrNext(ranked, roles, availableCards, currentDeck, levels, cfg) ==
    IF Len(ranked) > 0 THEN Some(Selection(ranked, Head(roles)))
    ELSE FirstRanked(Tail(roles), availableCards, currentDeck, levels, cfg)

FirstRanked(roles, availableCards, currentDeck, levels, cfg) ==
    IF roles = <<>> THEN None
    ELSE SelectionOrNext(getRankedCardsForRole(Head(roles), availableCards,
                                               currentDeck, levels, cfg),
                         roles, availableCards, currentDeck, levels, cfg)

\* the preference lists chosen without the band of 0.3 around the target
PreferredRolesNoBand(sum, n, cfg) ==
    IF n > 0 /\ 10 * sum > cfg.targetElixir * n
    THEN <<"cycle", "swarm", "support">>
    ELSE IF n > 0 /\ 10 * sum < cfg.targetElixir * n
         THEN <<"support", "tank", "anti_swarm">>
         ELSE <<"support", "cycle", "swarm">>

\* preferredRoles, from the deck's cards: avgElixir = sum / n, or
\* config.targetElixir for no cards
PreferredRoles(sum, n, cfg) ==
    IF n > 0 /\ 10 * sum > (cfg.targetElixir + 3) * n
    THEN <<"cycle", "swarm", "support">>
    ELSE IF n > 0 /\ 10 * sum < (cfg.targetElixir - 3) * n
         THEN <<"support", "tank", "anti_swarm">>
         ELSE <<"support", "cycle", "swarm">>

preferredRolesOf(currentCards, cfg) ==
    PreferredRoles(SumSeq([i \in DOMAIN currentCards |-> currentCards[i].elixir]),
                   Len(currentCards), cfg)

\* Fallback: any available card
AnyRemaining(remaining) ==
    IF Len(remaining) > 0
    THEN Some([card |-> remaining[1],
               role |-> IF Len(remaining[1].roles) > 0
                        THEN remaining[1].roles[1] ELSE "support",
               alternatives |-> <<>>])
    ELSE None

\* selectBestCard below the missing-role branch: preferred roles, then any card
selectByPreference(availableCards, currentDeck, missingRoles, levels, cfg) ==
    OrElse(FirstRanked(preferredRolesOf(getCardsById(currentDeck), cfg),
                       availableCards, currentDeck, levels, cfg),
           AnyRemaining(SelectSeq(availableCards,
                                  LAMBDA c : ~Includes(currentDeck, c.id))))

selectIgnoringMissing(availableCards, currentDeck, missingRoles, levels, cfg) ==
    selectByPreference(availableCards, currentDeck, <<>>, levels, cfg)

selectBestCard(availableCards, currentDeck, missingRoles, levels, cfg) ==
    OrElse(IF Len(missingRoles) > 0
           THEN FirstRanked(<<missingRoles[1]>>, availableCards, currentDeck,
                            levels, cfg)
           ELSE None,
           selectByPreference(availableCards, currentDeck, missingRoles, levels, cfg))

AddedCardInfo(selection) ==
    [cardId |-> selection.card.id,
     cardName |-> selection.card.name,
     role |-> selection.role,
     elixir |-> selection.card.elixir,
     alternatives |->
        [i \in DOMAIN selection.alternatives |->
            [cardId |-> selection.alternatives[i].card.id,
             scoreDelta |-> selection.alternatives[i].score
                            - selection.alternatives[1].score]]]

\* the while loop of generateSingleCompletion
RECURSIVE CompletionLoop(_, _, _, _, _)
CompletionStep(selection, deck, addedCards, filteredAvailable, levels, cfg) ==
    IF selection = None THEN [deck |-> deck, addedCards |-> addedCards]
    ELSE CompletionLoop(Append(deck, selection[1].card.id),
                        Append(addedCards, AddedCardInfo(selection[1])),
                        filteredAvailable, levels, cfg)

CompletionLoop(deck, addedCards, filteredAvailable, levels, cfg) ==
    IF Len(deck) >= 8 THEN [deck |-> deck, addedCards |-> addedCards]
    ELSE CompletionStep(selectBestCard(filteredAvailable, deck, getMissingRoles(deck),
                                       levels, cfg),
                        deck, addedCards, filteredAvailable, levels, cfg)

\* if (deck.length !== 8) return null; else the scored candidate
CompletionResult(r, levels, cfg) ==
    IF Len(r.deck) # 8 THEN None
    ELSE Some([cards |-> r.deck,
               score |-> scoreDeck(r.deck, levels, cfg),
               addedCards |-> r.addedCards])

generateSingleCompletion(startingCards, availableCards, levels, cfg, excludeCards) ==
    CompletionResult(
        CompletionLoop(startingCards, <<>>,
                       SelectSeq(availableCards, LAMBDA c : c.id \notin excludeCards),
                       levels, cfg),
        levels, cfg)

\* the available pool of generateDeckCandidates, suggestCardSwaps and autofillDeck
AvailableCards(arena) ==
    IF arena # NoArena THEN getCardsUnlockedByArena(arena) ELSE getAllCards

\* candidate.cards.filter((c) => existing.cards.includes(c)).length
Overlap(candidate, existing) ==
    Len(SelectSeq(candidate.cards, LAMBDA c : Includes(existing.cards, c)))

isDifferentLoose(candidate, accepted) ==
    \A i \in DOMAIN accepted : Overlap(candidate, accepted[i]) < 8

isDifferent(candidate, accepted) ==
    \A i \in DOMAIN accepted : Overlap(candidate, accepted[i]) < 7

\* the card ids of a list of addedCards records
AddedCardIds(added) == {added[i].cardId : i \in DOMAIN added}

\* the cards excluded in one diversity iteration
ExcludeCards(accepted, usedFirst) ==
    (IF Len(accepted) > 0
     THEN AddedCardIds(Slice(accepted[1].addedCards, 0, Min(Len(accepted), 3)))
     ELSE {})
    \cup usedFirst

FirstAdded(candidate) ==
    IF Len(candidate.addedCards) > 0 THEN {candidate.addedCards[1].cardId} ELSE {}

\* the values of a list of [score, val] records
Vals(keyed) == [i \in DOMAIN keyed |-> keyed[i].val]

SortNone(accepted, maxC) == Slice(accepted, 0, maxC)

\* candidates.sort((a, b) => b.score.overall - a.score.overall).slice(0, maxCandidates)
SortedCandidates(accepted, maxC) ==
    Slice(Vals(SortDesc([i \in DOMAIN accepted |->
                           [score |-> accepted[i].score.overall,
                            val |-> accepted[i]]])),
          0, maxC)

\* generateDeckCandidates up to the first test of the while condition
GeneratePrimary ==
    /\ op \in {"generateDeckCandidates", "getBestDeckCompletion"}
    /\ pc = "start"
    /\ \E primary \in {generateSingleCompletion(cardIds, AvailableCards(preferredArena),
                                                playerLevels, config, {})} :
          /\ candidates' = (IF primary # None THEN primary ELSE <<>>)
          /\ usedFirstCards' = (IF primary # None THEN FirstAdded(primary[1]) ELSE {})
    /\ IF Len(candidates') < maxCandidates
       THEN pc' = "loop" /\ result' = result
       ELSE pc' = "done" /\ result' = SortedCandidates(candidates', maxCandidates)
    /\ UNCHANGED <<rankedCard, rankedRole>>
    /\ UNCHANGED storeVars
    /\ UNCHANGED <<op, cardIds, playerLevels, preferredArena, maxCandidates, maxSwaps,
                   config, tick, swapSuggestions, optimizedDeck, swapPlan>>

\* one iteration of the diversity loop, and the return when the loop is left
GenerateAlternative ==
    /\ op \in {"generateDeckCandidates", "getBestDeckCompletion"}
    /\ pc = "loop"
    /\ \E availableCards \in {AvailableCards(preferredArena)},
          excludeCards \in {ExcludeCards(candidates, usedFirstCards)} :
          /\ \E candidate \in {generateSingleCompletion(cardIds, availableCards,
                                   playerLevels, config, excludeCards)} :
                IF candidate # None /\ isDifferent(candidate[1], candidates)
                THEN /\ candidates' = Append(candidates, candidate[1])
                     /\ usedFirstCards' = usedFirstCards \cup FirstAdded(candidate[1])
                ELSE /\ candidates' = candidates
                     /\ usedFirstCards' = usedFirstCards
          /\ tick' = 1 - tick
          \* the guard of line 318 is tested before the while condition
          /\ IF \/ 2 * Cardinality(excludeCards) > Len(availableCards)
                \/ Len(candidates') >= maxCandidates
             THEN pc' = "done" /\ result' = SortedCandidates(candidates', maxCandidates)
             ELSE pc' = "loop" /\ result' = result
    /\ UNCHANGED <<rankedCard, rankedRole>>
    /\ UNCHANGED storeVars
    /\ UNCHANGED <<op, cardIds, playerLevels, preferredArena, maxCandidates, maxSwaps,
                   config, swapSuggestions, optimizedDeck, swapPlan>>

----------------------------------------------------------------------------
(* Swap Advisor (services/deckCandidates.ts) and POST /deck/optimize *)

RECURSIVE ConcatAll(_)
ConcatAll(ss) == IF ss = <<>> THEN <<>> ELSE Head(ss) \o ConcatAll(Tail(ss))

SharesRole(a, b) == \E i \in DOMAIN a.roles : HasRole(b, a.roles[i])

\* improvement > 1, on tenths
MeaningfulLoose(improvement) == improvement > 0
Meaningful(improvement) == improvement > 10

\* the suggestion record of one replacement
Suggestion(removeCard, addCard, scoreBefore, scoreAfter) ==
    [removeCard |-> removeCard,
     addCard |-> addCard,
     scoreBefore |-> scoreBefore,
     scoreAfter |-> scoreAfter,
     improvement |-> scoreAfter - scoreBefore]

\* the replacements tried for one removed card, scored
TriedSwaps(tried, deckWithoutCard, cardToRemove, levels, cfg, currentScore) ==
    [i \in DOMAIN tried |->
        Suggestion(cardToRemove.id, tried[i].id, currentScore.overall,
                   scoreDeck(Append(deckWithoutCard, tried[i].id), levels, cfg).overall)]

\* the accepted suggestions of one slot when every compatible card is tried
SwapsForCardUnbounded(deck, cardToRemove, availableCards, levels, cfg, currentScore) ==
    SelectSeq(TriedSwaps(SelectSeq(availableCards,
                             LAMBDA c : /\ ~Includes(deck, c.id)
                                        /\ SharesRole(c, cardToRemove)),
                         SelectSeq(deck, LAMBDA id : id # cardToRemove.id),
                         cardToRemove, levels, cfg, currentScore),
              LAMBDA sg : Meaningful(sg.improvement))

\* the suggestions accepted for one removal slot
SwapsForCard(deck, cardToRemove, availableCards, levels, cfg, currentScore) ==
    SelectSeq(TriedSwaps(Slice(SelectSeq(availableCards,
                                   LAMBDA c : /\ ~Includes(deck, c.id)
                                              /\ SharesRole(c, cardToRemove)),
                               0, 5),
                         SelectSeq(deck, LAMBDA id : id # cardToRemove.id),
                         cardToRemove, levels, cfg, currentScore),
              LAMBDA sg : Meaningful(sg.improvement))

\* the suggestions of all removal slots, in deck order
AllSwaps(deck, deckCards, availableCards, levels, cfg, currentScore) ==
    ConcatAll([i \in DOMAIN deckCards |->
                 SwapsForCard(deck, deckCards[i], availableCards, levels, cfg,
                              currentScore)])

\* the first five accepted suggestions in scan order
TopSwapsUnsorted(suggestions) == Slice(suggestions, 0, 5)

\* suggestions.sort((a, b) => b.improvement - a.improvement).slice(0, 5)
TopSwaps(suggestions) ==
    Slice(Vals(SortDesc([i \in DOMAIN suggestions |->
                           [score |-> suggestions[i].improvement,
                            val |-> suggestions[i]]])),
          0, 5)

suggestCardSwaps(deck, arena, levels, cfg) ==
    TopSwaps(AllSwaps(deck, getCardsById(deck), AvailableCards(arena), levels, cfg,
                      scoreDeck(deck, levels, cfg)))

\* optimizedDeck.indexOf(id): the first position of id, 0 when absent
IndexOf(ids, id) ==
    IF Includes(ids, id) THEN CHOOSE i \in DOMAIN ids :
                                  ids[i] = id /\ \A j \in 1..(i - 1) : ids[j] # id
    ELSE 0

\* the loop over swapsToApply: optimizedDeck and swapPlan after it
RECURSIVE ApplySwaps(_, _, _)
\* a swap whose removed id is gone is still listed in the plan
ApplySwapAlwaysPlanned(swap, removeIndex, rest, working, plan) ==
    ApplySwaps(rest,
               IF removeIndex # 0 THEN [working EXCEPT ![removeIndex] = swap.addCard]
               ELSE working,
               Append(plan, [remove |-> swap.removeCard,
                             add |-> swap.addCard,
                             scoreDelta |-> swap.improvement]))

ApplySwap(swap, removeIndex, rest, working, plan) ==
    IF removeIndex # 0
    THEN ApplySwaps(rest,
                    [working EXCEPT ![removeIndex] = swap.addCard],
                    Append(plan, [remove |-> swap.removeCard,
                                  add |-> swap.addCard,
                                  scoreDelta |-> swap.improvement]))
    ELSE ApplySwaps(rest, working, plan)

ApplySwaps(swapsToApply, working, plan) ==
    IF swapsToApply = <<>> THEN [optimizedDeck |-> working, swapPlan |-> plan]
    ELSE ApplySwap(Head(swapsToApply),
                   IndexOf(working, Head(swapsToApply).removeCard),
                   Tail(swapsToApply), working, plan)

\* the request checks of POST /deck/optimize
OptimizeRequestOk(deck) ==
    /\ Len(deck) = 8
    /\ Cardinality(Range(deck)) = Len(deck)
    /\ Len(getCardsById(deck)) = 8

\* the body of the 200 response
OptimizeResponse(deck, optimized, plan, currentScore, optimizedScore, suggestions) ==
    [status |-> 200,
     originalDeck |-> deck,
     optimizedDeck |-> optimized,
     swapPlan |-> plan,
     before |-> currentScore.overall,
     after |-> optimizedScore.overall,
     improvement |-> optimizedScore.overall - currentScore.overall,
     missingRoles |-> currentScore.coverage.missingRoles,
     isOptimal |-> Len(suggestions) = 0]

SuggestCardSwaps ==
    /\ op = "suggestCardSwaps"
    /\ pc = "start"
    /\ swapSuggestions' = suggestCardSwaps(cardIds, preferredArena, playerLevels, config)
    /\ result' = swapSuggestions'
    /\ pc' = "done"
    /\ UNCHANGED <<rankedCard, rankedRole>>
    /\ UNCHANGED storeVars
    /\ UNCHANGED <<op, cardIds, playerLevels, preferredArena, maxCandidates, maxSwaps,
                   config, candidates, usedFirstCards, tick, optimizedDeck, swapPlan>>

OptimizeReject ==
    /\ op = "optimize"
    /\ pc = "start"
    /\ ~OptimizeRequestOk(cardIds)
    /\ result' = <<[status |-> 400]>>
    /\ pc' = "done"
    /\ UNCHANGED <<rankedCard, rankedRole>>
    /\ UNCHANGED storeVars
    /\ UNCHANGED <<op, cardIds, playerLevels, preferredArena, maxCandidates, maxSwaps,
                   config, candidates, usedFirstCards, tick, swapSuggestions,
                   optimizedDeck, swapPlan>>

Optimize ==
    /\ op = "optimize"
    /\ pc = "start"
    /\ OptimizeRequestOk(cardIds)
    /\ swapSuggestions' = suggestCardSwaps(cardIds, NoArena, playerLevels,
                                           DEFAULT_SCORING_CONFIG)
    /\ \E applied \in {ApplySwaps(Slice(swapSuggestions', 0, maxSwaps), cardIds, <<>>)} :
          /\ optimizedDeck' = applied.optimizedDeck
          /\ swapPlan' = applied.swapPlan
    /\ result' = <<OptimizeResponse(cardIds, optimizedDeck', swapPlan',
                       scoreDeck(cardIds, playerLevels, DEFAULT_SCORING_CONFIG),
                       scoreDeck(optimizedDeck', playerLevels, DEFAULT_SCORING_CONFIG),
                       swapSuggestions')>>
    /\ pc' = "done"
    /\ UNCHANGED <<rankedCard, rankedRole>>
    /\ UNCHANGED storeVars
    /\ UNCHANGED <<op, cardIds, playerLevels, preferredArena, maxCandidates, maxSwaps,
                   config, candidates, usedFirstCards, tick>>

----------------------------------------------------------------------------
(* Autofill (autofill.ts) *)

TARGET_AVG_ELIXIR == 35

RolesPresent(cards) == [r \in Range(REQUIRED_ROLES) |-> AnyHasRole(cards, r)]

analyzeDeck(ids) == RolesPresent(getCardsById(ids))

\* only the first of the missing required roles
autofillFirstMissingRole(requirements) ==
    Slice(SelectSeq(REQUIRED_ROLES, LAMBDA r : ~requirements[r]), 0, 1)

autofillMissingRoles(requirements) ==
    SelectSeq(REQUIRED_ROLES, LAMBDA r : ~requirements[r])

getCardLevelScore(card, levels) == LevelFind(levels, card.id)

\* rarityScores of selectBestCardForRole, in tenths
autofillRarityScores(rarity) ==
    CASE rarity = "common" -> 20
      [] rarity = "rare" -> 15
      [] rarity = "epic" -> 10
      [] rarity = "legendary" -> 5
      [] rarity = "champion" -> 5
      [] OTHER -> 0

\* 10 * (n + 1) * (currentDistance - newDistance) for n current cards of
\* average currentElixir (tenths)
ElixirImpactOf(n, currentElixir, newCard, targetElixir) ==
    (n + 1) * Abs(currentElixir - targetElixir)
    - Abs(currentElixir * n + 10 * newCard.elixir - targetElixir * (n + 1))

\* 10 * (n + 1) * getElixirImpact(currentCards, newCard, targetElixir),
\* n = currentCards.length
ElixirImpactScaled(currentCards, newCard, targetElixir) ==
    ElixirImpactOf(Len(currentCards), calculateAverageElixir(currentCards), newCard,
                   targetElixir)

\* the candidate score of selectBestCardForRole, times 10 * (n + 1)
AutofillCardScore(card, currentDeck, levels, targetElixir) ==
    10 * (Len(currentDeck) + 1) * getCardLevelScore(card, levels)
    + 2 * ElixirImpactScaled(currentDeck, card, targetElixir)
    + 5 * (Len(currentDeck) + 1) * (Len(card.roles) - 1)
    + (Len(currentDeck) + 1) * autofillRarityScores(card.rarity)

\* candidates.map(score)
AutofillScored(cands, currentDeck, levels, targetElixir) ==
    [i \in DOMAIN cands |->
        [card |-> cands[i],
         score |-> AutofillCardScore(cands[i], currentDeck, levels, targetElixir)]]

\* the cards of a list of [card, score] records
CardsOf(scored) == [i \in DOMAIN scored |-> scored[i].card]

\* null for no candidate, else the best card and scored.slice(1, 3)
BestScored(sorted) ==
    IF Len(sorted) = 0 THEN None
    ELSE Some([card |-> sorted[1].card, alternatives |-> CardsOf(Slice(sorted, 1, 3))])

\* the best card of the role, cards of the deck included
selectBestIgnoringDeck(role, availableCards, currentDeck, levels, targetElixir) ==
    BestScored(SortDesc(AutofillScored(getCardsByRole(role, availableCards),
                                       currentDeck, levels, targetElixir)))

selectBestCardForRole(role, availableCards, currentDeck, levels, targetElixir) ==
    BestScored(SortDesc(AutofillScored(
        SelectSeq(getCardsByRole(role, availableCards),
                  LAMBDA c : ~Includes(currentDeck, c.id)),
        currentDeck, levels, targetElixir)))

\* the first role of the list for which selectBestCardForRole finds a card
RECURSIVE FirstSelected(_, _, _, _, _)
SelectedOrNext(selected, roles, availableCards, workingDeck, levels, targetElixir) ==
    IF selected # None
    THEN Some([card |-> selected[1].card, role |-> Head(roles)])
    ELSE FirstSelected(Tail(roles), availableCards, workingDeck, levels, targetElixir)

FirstSelected(roles, availableCards, workingDeck, levels, targetElixir) ==
    IF roles = <<>> THEN None
    ELSE SelectedOrNext(selectBestCardForRole(Head(roles), availableCards,
                                              workingDeck, levels, targetElixir),
                        roles, availableCards, workingDeck, levels, targetElixir)

\* preferredRoles of fillRemainingSlots
FillPreferredRoles(currentAvgElixir, targetElixir) ==
    IF currentAvgElixir > targetElixir + 3 THEN <<"cycle", "swarm", "support">>
    ELSE IF currentAvgElixir < targetElixir - 3
         THEN <<"support", "tank", "anti_swarm">>
         ELSE <<"support", "cycle", "swarm">>

\* Fallback: pick any available card
FillAnyRemaining(remaining) ==
    IF Len(remaining) > 0
    THEN Some([card |-> remaining[1],
               role |-> IF Len(remaining[1].roles) > 0
                        THEN remaining[1].roles[1] ELSE "support"])
    ELSE None

\* the filling loop of fillRemainingSlots, i = slots still to visit
RECURSIVE FillLoop(_, _, _, _, _, _)
FillStep(selected, i, workingDeck, explanations, availableCards, levels, targetElixir) ==
    IF selected # None
    THEN FillLoop(i - 1, Append(workingDeck, selected[1].card.id),
                  Append(explanations, [cardId |-> selected[1].card.id,
                                        role |-> selected[1].role]),
                  availableCards, levels, targetElixir)
    ELSE FillLoop(i - 1, workingDeck, explanations, availableCards, levels,
                  targetElixir)

FillLoop(i, workingDeck, explanations, availableCards, levels, targetElixir) ==
    IF i = 0 THEN [deck |-> workingDeck, explanations |-> explanations]
    ELSE FillStep(
            OrElse(FirstSelected(FillPreferredRoles(calculateAverageElixir(workingDeck),
                                                    targetElixir),
                                 availableCards, workingDeck, levels, targetElixir),
                   FillAnyRemaining(SelectSeq(availableCards,
                                        LAMBDA c : ~Includes(workingDeck, c.id)))),
            i, workingDeck, explanations, availableCards, levels, targetElixir)

fillRemainingSlots(currentDeck, availableCards, levels, targetElixir) ==
    FillLoop(8 - Len(currentDeck), currentDeck, <<>>, availableCards, levels,
             targetElixir)

\* the loop of autofillDeck over the roles missing from the request's cards
RECURSIVE FillMissing(_, _, _, _, _, _)
FillMissingStep(r, roles, workingDeck, explanations, availableCards, levels, targetElixir) ==
    IF r # None
    THEN FillMissing(Tail(roles), Append(workingDeck, r[1].card.id),
                     Append(explanations, [cardId |-> r[1].card.id,
                                           role |-> Head(roles)]),
                     availableCards, levels, targetElixir)
    ELSE FillMissing(Tail(roles), workingDeck, explanations, availableCards,
                     levels, targetElixir)

FillMissing(roles, workingDeck, explanations, availableCards, levels, targetElixir) ==
    IF roles = <<>> \/ Len(workingDeck) >= 8
    THEN [deck |-> workingDeck, explanations |-> explanations]
    ELSE FillMissingStep(selectBestCardForRole(Head(roles), availableCards,
                                               workingDeck, levels, targetElixir),
                         roles, workingDeck, explanations, availableCards, levels,
                         targetElixir)

\* the response from the two filling phases
AutofillResponse(critical, rest) ==
    [deck |-> rest.deck,
     explanations |-> critical.explanations \o rest.explanations,
     averageElixir |-> calculateAverageElixir(rest.deck)]

\* if (workingDeck.length < 8) fillRemainingSlots(...)
FillRest(critical, availableCards, levels, targetElixir) ==
    AutofillResponse(critical,
        IF Len(critical.deck) < 8
        THEN fillRemainingSlots(critical.deck, availableCards, levels, targetElixir)
        ELSE [deck |-> critical.deck, explanations |-> <<>>])

autofillDeck(currentCards, levels, arena, targetElixir) ==
    IF Len(currentCards) >= 8
    THEN [deck |-> Slice(currentCards, 0, 8), explanations |-> <<>>,
          averageElixir |-> calculateAverageElixir(Slice(currentCards, 0, 8))]
    ELSE FillRest(FillMissing(autofillMissingRoles(analyzeDeck(currentCards)),
                              currentCards, <<>>, AvailableCards(arena), levels,
                              targetElixir),
                  AvailableCards(arena), levels, targetElixir)

AutofillDeck ==
    /\ op = "autofillDeck"
    /\ pc = "start"
    /\ result' = <<autofillDeck(cardIds, playerLevels, preferredArena,
                                TARGET_AVG_ELIXIR)>>
    /\ pc' = "done"
    /\ UNCHANGED <<rankedCard, rankedRole>>
    /\ UNCHANGED storeVars
    /\ UNCHANGED <<op, cardIds, playerLevels, preferredArena, maxCandidates, maxSwaps,
                   config, candidates, usedFirstCards, tick, swapSuggestions,
                   optimizedDeck, swapPlan>>

----------------------------------------------------------------------------
(* validateDeck (autofill.ts) and POST /deck/validate *)

MIN_AVG_ELIXIR == 26
MAX_AVG_ELIXIR == 43

\* a number with one decimal, given in tenths, as a template literal prints it
FormatTenths(t) ==
    IF t % 10 = 0 THEN ToString(t \div 10)
    ELSE ToString(t \div 10) \o "." \o ToString(t % 10)

CountIssue(k) == "Deck has " \o ToString(k) \o " cards, needs exactly 8"

RoleIssue(role) ==
    CASE role = "win_condition" -> "Deck lacks a win condition"
      [] role = "small_spell" -> "Deck lacks a small spell"
      [] role = "big_spell" -> "Deck lacks a big spell"
      [] role = "air_targeting" -> "Deck lacks air-targeting units"
      [] role = "tank_killer" -> "Deck lacks a tank killer"

RoleIssues(missing) == [i \in DOMAIN missing |-> RoleIssue(missing[i])]

TooLowInclusive(avgElixir) == avgElixir <= MIN_AVG_ELIXIR
TooLow(avgElixir) == avgElixir < MIN_AVG_ELIXIR

TooHigh(avgElixir) == avgElixir > MAX_AVG_ELIXIR

LowIssue(avgElixir) ==
    "Average elixir (" \o FormatTenths(avgElixir) \o ") is too low (min: "
        \o FormatTenths(MIN_AVG_ELIXIR) \o ")"

HighIssue(avgElixir) ==
    "Average elixir (" \o FormatTenths(avgElixir) \o ") is too high (max: "
        \o FormatTenths(MAX_AVG_ELIXIR) \o ")"

ElixirIssues(avgElixir) ==
    (IF TooLow(avgElixir) THEN <<LowIssue(avgElixir)>> ELSE <<>>)
    \o (IF TooHigh(avgElixir) THEN <<HighIssue(avgElixir)>> ELSE <<>>)

ValidationOf(issues) == [isValid |-> Len(issues) = 0, issues |-> issues]

validateDeck(ids) ==
    ValidationOf((IF Len(ids) # 8 THEN <<CountIssue(Len(ids))>> ELSE <<>>)
                 \o RoleIssues(autofillMissingRoles(analyzeDeck(ids)))
                 \o ElixirIssues(calculateAverageElixir(ids)))

\* the body of the 200 response of POST /deck/validate
ValidateResponse(validation, avgElixir) ==
    [isValid |-> validation.isValid,
     issues |-> validation.issues,
     averageElixir |-> avgElixir]

ValidateDeck ==
    /\ op = "validateDeck"
    /\ pc = "start"
    /\ result' = <<ValidateResponse(validateDeck(cardIds), calculateAverageElixir(cardIds))>>
    /\ pc' = "done"
    /\ UNCHANGED <<rankedCard, rankedRole>>
    /\ UNCHANGED storeVars
    /\ UNCHANGED <<op, cardIds, playerLevels, preferredArena, maxCandidates, maxSwaps,
                   config, candidates, usedFirstCards, tick, swapSuggestions,
                   optimizedDeck, swapPlan>>

CalculateAverageElixir ==
    /\ op = "calculateAverageElixir"
    /\ pc = "start"
    /\ result' = <<calculateAverageElixir(cardIds)>>
    /\ pc' = "done"
    /\ UNCHANGED <<rankedCard, rankedRole>>
    /\ UNCHANGED storeVars
    /\ UNCHANGED <<op, cardIds, playerLevels, preferredArena, maxCandidates, maxSwaps,
                   config, candidates, usedFirstCards, tick, swapSuggestions,
                   optimizedDeck, swapPlan>>

----------------------------------------------------------------------------
(* Deck Scorer as an operation *)

ScoreDeck ==
    /\ op = "scoreDeck"
    /\ pc = "start"
    /\ result' = <<scoreDeck(cardIds, playerLevels, config)>>
    /\ pc' = "done"
    /\ UNCHANGED <<rankedCard, rankedRole>>
    /\ UNCHANGED storeVars
    /\ UNCHANGED <<op, cardIds, playerLevels, preferredArena, maxCandidates, maxSwaps,
                   config, candidates, usedFirstCards, tick, swapSuggestions,
                   optimizedDeck, swapPlan>>

----------------------------------------------------------------------------
(* Card Ranker as an operation: the call of getRankedCardsForRole's map *)

ScoreCardForRole ==
    /\ op = "scoreCardForRole"
    /\ pc = "start"
    /\ result' = <<scoreCardForRole(allCards[rankedCard], rankedRole, cardIds,
                                    playerLevels, config)>>
    /\ pc' = "done"
    /\ UNCHANGED <<rankedCard, rankedRole>>
    /\ UNCHANGED storeVars
    /\ UNCHANGED <<op, cardIds, playerLevels, preferredArena, maxCandidates, maxSwaps,
                   config, candidates, usedFirstCards, tick, swapSuggestions,
                   optimizedDeck, swapPlan>>

----------------------------------------------------------------------------
(* Inputs *)

MaxArena == 3

\* full decks whose prefixes serve as id lists
BaseDecks == {
    <<9, 6, 12, 8, 4, 10, 7, 5>>,
    <<1, 2, 3, 5, 7, 11, 8, 14>>,
    <<13, 14, 1, 9, 6, 4, 7, 11>>
}

StartingLists ==
    {SubSeq(d, 1, k) : d \in BaseDecks, k \in 0..8}
        \cup {<<14, 13>>, <<4>>, <<1, 3, 9, 10, 11, 13>>}

LevelInputs == {
    <<>>,
    <<[cardId |-> 2, level |-> 10], [cardId |-> 5, level |-> 10],
      [cardId |-> 9, level |-> 12], [cardId |-> 13, level |-> 14]>>,
    <<[cardId |-> 8, level |-> 14], [cardId |-> 12, level |-> 13],
      [cardId |-> 3, level |-> 9], [cardId |-> 8, level |-> 2]>>
}

ArenaInputs == {NoArena} \cup (0..MaxArena)

\* id lists for scoreDeck: also unknown ids and a heavy deck
ScoreLists ==
    StartingLists \cup
    {<<UnknownId>>, <<9, UnknownId, 6>>, <<13, 14, 1, 9, 6, 4, 7, 11>>,
     <<13, 14, 1>>, <<13, 14, 17>>, <<13, 14, 17, 9, 6, 4, 8, 12>>,
     <<8, 12, 10, 2, 3, 5, 9, 4>>}

ScoreLevelInputs ==
    LevelInputs \cup
    {<<[cardId |-> 9, level |-> 14], [cardId |-> 6, level |-> 14],
       [cardId |-> 12, level |-> 14], [cardId |-> 8, level |-> 14],
       [cardId |-> 4, level |-> 14], [cardId |-> 10, level |-> 14],
       [cardId |-> 7, level |-> 14], [cardId |-> 5, level |-> 14]>>,
     <<[cardId |-> 1, level |-> 1], [cardId |-> 2, level |-> 14],
       [cardId |-> 3, level |-> 5]>>,
     <<[cardId |-> 9, level |-> 5], [cardId |-> 6, level |-> 5],
       [cardId |-> 12, level |-> 5], [cardId |-> 8, level |-> 5],
       [cardId |-> 4, level |-> 5], [cardId |-> 10, level |-> 5],
       [cardId |-> 7, level |-> 5], [cardId |-> 5, level |-> 5]>>}

\* the weights of DEFAULT_SCORING_CONFIG and of generateOptimizedCandidates
WeightInputs == {
    [coverage |-> 35, curve |-> 25, role |-> 25, levelFit |-> 15],
    [coverage |-> 50, curve |-> 20, role |-> 20, levelFit |-> 10],
    [coverage |-> 25, curve |-> 45, role |-> 20, levelFit |-> 10],
    [coverage |-> 25, curve |-> 20, role |-> 15, levelFit |-> 40]
}

\* complete decks for the Swap Advisor
SwapDecks ==
    BaseDecks \cup
    {<<5, 14, 2, 8, 11, 4, 10, 12>>, <<5, 2, 8, 11, 4, 10, 7, 12>>,
     <<13, 14, 1, 9, 6, 4, 7, 11>>, <<6, 1, 3, 4, 8, 9, 10, 13>>,
     <<1, 2, 3, 4, 5, 8, 9, 13>>, <<1, 2, 3, 4, 6, 7, 10, 14>>}

\* player levels for the Swap Advisor: also a player whose Musketeer lags
SwapLevelInputs ==
    LevelInputs \cup
    {<<[cardId |-> 1, level |-> 14], [cardId |-> 3, level |-> 14],
       [cardId |-> 4, level |-> 14], [cardId |-> 8, level |-> 14],
       [cardId |-> 9, level |-> 14], [cardId |-> 10, level |-> 14],
       [cardId |-> 13, level |-> 14], [cardId |-> 16, level |-> 14],
       [cardId |-> 15, level |-> 13], [cardId |-> 6, level |-> 9]>>}

\* requests POST /deck/optimize rejects
BadDecks == {<<9, 6, 12>>, <<9, 9, 12, 8, 4, 10, 7, 5>>, <<UnknownId, 6, 12, 8, 4, 10, 7, 5>>}

\* the initial state of the store (part_001 lines 55-68)
StoreInit ==
    /\ storeDeck = <<>>
    /\ lastAutofillResult = None
    /\ lastOptimizeResult = None
    /\ isAutofilling = FALSE
    /\ isOptimizing = FALSE
    /\ error = None
    /\ inFlight = <<>>

Idle ==
    /\ candidates = <<>>
    /\ usedFirstCards = {}
    /\ tick = 0
    /\ swapSuggestions = <<>>
    /\ optimizedDeck = <<>>
    /\ swapPlan = <<>>
    /\ result = <<>>
    /\ pc = "start"
    /\ rankedCard = UnknownId
    /\ rankedRole = "support"
    /\ StoreInit

InitScore ==
    /\ op = "scoreDeck"
    /\ cardIds \in ScoreLists
    /\ playerLevels \in ScoreLevelInputs
    /\ preferredArena = NoArena
    /\ maxCandidates = 0
    /\ maxSwaps = 0
    /\ config \in {[DEFAULT_SCORING_CONFIG EXCEPT !.weights = w] : w \in WeightInputs}
    /\ Idle

NextScore == ScoreDeck

SpecScore == InitScore /\ [][NextScore]_vars

InitGen ==
    /\ op \in {"generateDeckCandidates", "getBestDeckCompletion"}
    /\ cardIds \in StartingLists
    /\ playerLevels \in LevelInputs
    /\ preferredArena \in ArenaInputs
    /\ maxCandidates \in 1..MaxCandidatesBound
    /\ op = "getBestDeckCompletion" => maxCandidates = 1
    /\ maxSwaps = 0
    /\ config = DEFAULT_SCORING_CONFIG
    /\ Idle

NextGen == GeneratePrimary \/ GenerateAlternative

SpecGen == InitGen /\ [][NextGen]_vars

InitSwap ==
    /\ \/ /\ op = "suggestCardSwaps"
          /\ cardIds \in SwapDecks
          /\ preferredArena \in ArenaInputs
          /\ maxSwaps = 0
       \/ /\ op = "optimize"
          /\ cardIds \in SwapDecks \cup BadDecks
          /\ preferredArena = NoArena
          /\ maxSwaps \in 0..MaxSwapsBound
    /\ playerLevels \in SwapLevelInputs
    /\ maxCandidates = 0
    /\ config = DEFAULT_SCORING_CONFIG
    /\ Idle

NextSwap == SuggestCardSwaps \/ OptimizeReject \/ Optimize

SpecSwap == InitSwap /\ [][NextSwap]_vars

\* id lists of any length for validateDeck and calculateAverageElixir: the
\* prefixes of the complete decks, lists with unknown ids, a list of elixir
\* costs 4, 4, 1, 1, 4, 2, 3, 2, and lists of nine ids
InfoLists ==
    ScoreLists \cup {SubSeq(d, 1, k) : d \in SwapDecks, k \in 0..8}
        \cup {<<9, 6, 12, 8, 4, 10, 5, 10>>, <<UnknownId, UnknownId>>,
              <<9, 6, 12, 8, 4, 10, 7, 5, 2>>, <<13, 14, 1, 9, 6, 4, 7, 11, 3>>,
              <<14, 13, UnknownId>>, <<8, 12>>, <<8, 12, 10>>, <<14>>,
              <<UnknownId, 1, 3, 10>>}

InitInfo ==
    /\ op \in {"validateDeck", "calculateAverageElixir"}
    /\ cardIds \in InfoLists
    /\ playerLevels = <<>>
    /\ preferredArena = NoArena
    /\ maxCandidates = 0
    /\ maxSwaps = 0
    /\ config = DEFAULT_SCORING_CONFIG
    /\ Idle

NextInfo == ValidateDeck \/ CalculateAverageElixir

SpecInfo == InitInfo /\ [][NextInfo]_vars

\* autofillDeck is also given ids the catalog does not know
AutofillLists ==
    StartingLists \cup {<<UnknownId, 9>>, <<6, UnknownId, 3, 4>>, <<5, 8, 12, 2, 1, 7>>}

InitAutofill ==
    /\ op = "autofillDeck"
    /\ cardIds \in AutofillLists
    /\ playerLevels \in LevelInputs
    /\ preferredArena \in ArenaInputs
    /\ maxCandidates = 0
    /\ maxSwaps = 0
    /\ config = DEFAULT_SCORING_CONFIG
    /\ Idle

NextAutofill == AutofillDeck

SpecAutofill == InitAutofill /\ [][NextAutofill]_vars

RankLevelInputs ==
    LevelInputs \cup {<<[cardId |-> 17, level |-> 11], [cardId |-> 18, level |-> 12],
                         [cardId |-> 8, level |-> 14]>>}

\* getRankedCardsForRole scores the cards that carry the role and are
\* outside the current deck, a deck of fewer than 8 ids
InitRank ==
    /\ op = "scoreCardForRole"
    /\ cardIds \in {l \in StartingLists : Len(l) < 8}
    /\ rankedCard \in {id \in CardIdSet : ~Includes(cardIds, id)}
    /\ rankedRole \in Range(allCards[rankedCard].roles)
    /\ playerLevels \in RankLevelInputs
    /\ preferredArena = NoArena
    /\ maxCandidates = 0
    /\ maxSwaps = 0
    /\ config = DEFAULT_SCORING_CONFIG
    /\ candidates = <<>> /\ usedFirstCards = {} /\ tick = 0
    /\ swapSuggestions = <<>> /\ optimizedDeck = <<>> /\ swapPlan = <<>>
    /\ result = <<>> /\ pc = "start"
    /\ StoreInit

NextRank == ScoreCardForRole

SpecRank == InitRank /\ [][NextRank]_vars

InitFill == InitGen \/ InitAutofill

NextFill == NextGen \/ NextAutofill

\* the two operations that complete a partial deck
SpecFill == InitFill /\ [][NextFill]_vars

----------------------------------------------------------------------------
(* Client store (part_001: useStore) *)

\* A Card object of the store is named by its id.  An api call in flight is
\* a record of the arguments it was issued with; the calls are answered in
\* any order, each with the server's response or with a failure.

\* the state of the server-side operations
serverVars == <<op, pc, cardIds, playerLevels, preferredArena, maxCandidates,
                maxSwaps, config, candidates, usedFirstCards, tick, swapSuggestions,
                optimizedDeck, swapPlan, result, rankedCard, rankedRole>>

\* DEFAULT_SETTINGS.preferredArena
DEFAULT_PREFERRED_ARENA == 15

\* optimizeDeck: maxSwaps = 3 when not given
DEFAULT_MAX_SWAPS == 3

\* at most this many api calls await their response at a time
MaxInFlight == 2

\* ids.map((id) => cards.find(...) || result.cardDetails?.find(...)).filter(defined),
\* as ids; cardDetails is getCardsById of the same ids
ResolveCards(ids) == [i \in DOMAIN getCardsById(ids) |-> getCardsById(ids)[i].id]

\* api.optimizeDeck(request): the Optimize operation on the request's deck and
\* max-swaps count, no player levels sent
apiOptimizeDeck(request) ==
    LET suggestions == suggestCardSwaps(request.deck, NoArena, <<>>,
                                        DEFAULT_SCORING_CONFIG)
        applied == ApplySwaps(Slice(suggestions, 0, request.maxSwaps), request.deck, <<>>)
    IN  OptimizeResponse(request.deck, applied.optimizedDeck, applied.swapPlan,
                         scoreDeck(request.deck, <<>>, DEFAULT_SCORING_CONFIG),
                         scoreDeck(applied.optimizedDeck, <<>>, DEFAULT_SCORING_CONFIG),
                         suggestions)

\* addCardToDeck without the test for a card already in the deck
addCardAllowingRepeats(card) ==
    /\ op = "store"
    /\ IF Len(storeDeck) >= 8
       THEN UNCHANGED storeVars
       ELSE /\ storeDeck' = Append(storeDeck, card)
            /\ UNCHANGED <<lastAutofillResult, lastOptimizeResult, isAutofilling,
                           isOptimizing, error, inFlight>>
    /\ UNCHANGED serverVars

addCardToDeck(card) ==
    /\ op = "store"
    /\ IF Len(storeDeck) >= 8 \/ Includes(storeDeck, card)
       THEN UNCHANGED storeVars
       ELSE /\ storeDeck' = Append(storeDeck, card)
            /\ UNCHANGED <<lastAutofillResult, lastOptimizeResult, isAutofilling,
                           isOptimizing, error, inFlight>>
    /\ UNCHANGED serverVars

removeCardFromDeck(cardId) ==
    /\ op = "store"
    /\ storeDeck' = SelectSeq(storeDeck, LAMBDA c : c # cardId)
    /\ UNCHANGED <<lastAutofillResult, lastOptimizeResult, isAutofilling,
                   isOptimizing, error, inFlight>>
    /\ UNCHANGED serverVars

clearDeck ==
    /\ op = "store"
    /\ storeDeck' = <<>>
    /\ lastAutofillResult' = None
    /\ lastOptimizeResult' = None
    /\ UNCHANGED <<isAutofilling, isOptimizing, error, inFlight>>
    /\ UNCHANGED serverVars

setDeck(cards) ==
    /\ op = "store"
    /\ storeDeck' = Slice(cards, 0, 8)
    /\ lastAutofillResult' = None
    /\ lastOptimizeResult' = None
    /\ UNCHANGED <<isAutofilling, isOptimizing, error, inFlight>>
    /\ UNCHANGED serverVars

\* autofillDeck up to its await
autofillDeckCall ==
    /\ op = "store"
    /\ Len(inFlight) < MaxInFlight
    /\ IF Len(storeDeck) >= 8
       THEN UNCHANGED storeVars
       ELSE /\ isAutofilling' = TRUE
            /\ error' = None
            /\ inFlight' = Append(inFlight,
                                  [call |-> "autofillDeck", currentCards |-> storeDeck,
                                   preferredArena |-> DEFAULT_PREFERRED_ARENA])
            /\ UNCHANGED <<storeDeck, lastAutofillResult, lastOptimizeResult,
                           isOptimizing>>
    /\ UNCHANGED serverVars

\* autofillDeck after its await, the call answered with 200: POST
\* /deck/autofill accepts at most 7 ids without duplicates
autofillDeckResolved(k) ==
    /\ op = "store"
    /\ k \in DOMAIN inFlight
    /\ inFlight[k].call = "autofillDeck"
    /\ Len(inFlight[k].currentCards) <= 7
    /\ Cardinality(Range(inFlight[k].currentCards)) = Len(inFlight[k].currentCards)
    /\ lastAutofillResult' = Some(autofillDeck(inFlight[k].currentCards, <<>>,
                                               inFlight[k].preferredArena,
                                               TARGET_AVG_ELIXIR))
    /\ storeDeck' = ResolveCards(lastAutofillResult'[1].deck)
    /\ isAutofilling' = FALSE
    /\ inFlight' = SubSeq(inFlight, 1, k - 1) \o SubSeq(inFlight, k + 1, Len(inFlight))
    /\ UNCHANGED <<lastOptimizeResult, isOptimizing, error>>
    /\ UNCHANGED serverVars

\* autofillDeck after its await, the call rejected (400, 500 or no answer)
autofillDeckFailed(k) ==
    /\ op = "store"
    /\ k \in DOMAIN inFlight
    /\ inFlight[k].call = "autofillDeck"
    /\ error' = Some("Failed to autofill deck")
    /\ isAutofilling' = FALSE
    /\ inFlight' = SubSeq(inFlight, 1, k - 1) \o SubSeq(inFlight, k + 1, Len(inFlight))
    /\ UNCHANGED <<storeDeck, lastAutofillResult, lastOptimizeResult, isOptimizing>>
    /\ UNCHANGED serverVars

\* optimizeDeck up to its await
optimizeDeckCall(swaps) ==
    /\ op = "store"
    /\ Len(inFlight) < MaxInFlight
    /\ IF Len(storeDeck) # 8
       THEN /\ error' = Some("Deck must have 8 cards to optimize")
            /\ UNCHANGED <<storeDeck, lastAutofillResult, lastOptimizeResult,
                           isAutofilling, isOptimizing, inFlight>>
       ELSE /\ isOptimizing' = TRUE
            /\ error' = None
            /\ lastOptimizeResult' = None
            /\ inFlight' = Append(inFlight,
                                  [call |-> "optimizeDeck", deck |-> storeDeck,
                                   maxSwaps |-> swaps])
            /\ UNCHANGED <<storeDeck, lastAutofillResult, isAutofilling>>
    /\ UNCHANGED serverVars

\* optimizeDeck after its await, the call answered with 200
optimizeDeckResolved(k) ==
    /\ op = "store"
    /\ k \in DOMAIN inFlight
    /\ inFlight[k].call = "optimizeDeck"
    /\ OptimizeRequestOk(inFlight[k].deck)
    /\ lastOptimizeResult' = Some(apiOptimizeDeck(inFlight[k]))
    /\ isOptimizing' = FALSE
    /\ inFlight' = SubSeq(inFlight, 1, k - 1) \o SubSeq(inFlight, k + 1, Len(inFlight))
    /\ UNCHANGED <<storeDeck, lastAutofillResult, isAutofilling, error>>
    /\ UNCHANGED serverVars

\* optimizeDeck after its await, the call rejected
optimizeDeckFailed(k) ==
    /\ op = "store"
    /\ k \in DOMAIN inFlight
    /\ inFlight[k].call = "optimizeDeck"
    /\ error' = Some("Failed to optimize deck")
    /\ isOptimizing' = FALSE
    /\ inFlight' = SubSeq(inFlight, 1, k - 1) \o SubSeq(inFlight, k + 1, Len(inFlight))
    /\ UNCHANGED <<storeDeck, lastAutofillResult, lastOptimizeResult, isAutofilling>>
    /\ UNCHANGED serverVars

applyOptimization ==
    /\ op = "store"
    /\ IF lastOptimizeResult # None
          /\ Len(ResolveCards(lastOptimizeResult[1].optimizedDeck)) = 8
       THEN /\ storeDeck' = ResolveCards(lastOptimizeResult[1].optimizedDeck)
            /\ lastOptimizeResult' = None
            /\ lastAutofillResult' = None
            /\ UNCHANGED <<isAutofilling, isOptimizing, error, inFlight>>
       ELSE UNCHANGED storeVars
    /\ UNCHANGED serverVars

\* importDeckFromLink up to its await; the link carries the id list after
\* "deck="
importDeckFromLinkCall(linkIds) ==
    /\ op = "store"
    /\ Len(inFlight) < MaxInFlight
    /\ error' = None
    /\ inFlight' = Append(inFlight, [call |-> "parseDeckLink", link |-> linkIds])
    /\ UNCHANGED <<storeDeck, lastAutofillResult, lastOptimizeResult, isAutofilling,
                   isOptimizing>>
    /\ UNCHANGED serverVars

\* importDeckFromLink after its await: GET /deck/parse found 8 ids, all of
\* them known, and the store resolved all 8
importDeckFromLinkResolved(k) ==
    /\ op = "store"
    /\ k \in DOMAIN inFlight
    /\ inFlight[k].call = "parseDeckLink"
    /\ Len(inFlight[k].link) = 8
    /\ Len(getCardsById(inFlight[k].link)) = 8
    /\ Len(ResolveCards(inFlight[k].link)) = 8
    /\ storeDeck' = ResolveCards(inFlight[k].link)
    /\ lastAutofillResult' = None
    /\ inFlight' = SubSeq(inFlight, 1, k - 1) \o SubSeq(inFlight, k + 1, Len(inFlight))
    /\ UNCHANGED <<lastOptimizeResult, isAutofilling, isOptimizing, error>>
    /\ UNCHANGED serverVars

\* importDeckFromLink after its await, the call rejected or the link invalid
importDeckFromLinkFailed(k) ==
    /\ op = "store"
    /\ k \in DOMAIN inFlight
    /\ inFlight[k].call = "parseDeckLink"
    /\ error' = Some("Failed to import deck")
    /\ inFlight' = SubSeq(inFlight, 1, k - 1) \o SubSeq(inFlight, k + 1, Len(inFlight))
    /\ UNCHANGED <<storeDeck, lastAutofillResult, lastOptimizeResult, isAutofilling,
                   isOptimizing>>
    /\ UNCHANGED serverVars

InitStore ==
    /\ op = "store"
    /\ cardIds = <<>>
    /\ playerLevels = <<>>
    /\ preferredArena = NoArena
    /\ maxCandidates = 0
    /\ maxSwaps = 0
    /\ config = DEFAULT_SCORING_CONFIG
    /\ Idle

\* the deck edited card by card: 9 cards to pick from, the removal of a held
\* first card, of a held last card and of a card never held
NextEdit ==
    \/ \E card \in 1..9 : addCardToDeck(card)
    \/ \E cardId \in {1, 9, 12} : removeCardFromDeck(cardId)
    \/ clearDeck

SpecEdit == InitStore /\ [][NextEdit]_vars

\* the whole store: one card to add, one to remove, a top deck to set, a
\* valid and a short link to import
NextStore ==
    \/ \E card \in {12} : addCardToDeck(card)
    \/ \E cardId \in {7} : removeCardFromDeck(cardId)
    \/ clearDeck
    \/ \E cards \in {<<1, 2, 3, 4, 6, 7, 10, 14>>} : setDeck(cards)
    \/ autofillDeckCall
    \/ \E k \in DOMAIN inFlight : autofillDeckResolved(k)
    \/ \E k \in DOMAIN inFlight : autofillDeckFailed(k)
    \/ \E swaps \in {DEFAULT_MAX_SWAPS} : optimizeDeckCall(swaps)
    \/ \E k \in DOMAIN inFlight : optimizeDeckResolved(k)
    \/ \E k \in DOMAIN inFlight : optimizeDeckFailed(k)
    \/ applyOptimization
    \/ \E link \in {<<1, 2, 3, 5, 7, 11, 8, 14>>, <<1, 2, 3>>} : importDeckFromLinkCall(link)
    \/ \E k \in DOMAIN inFlight : importDeckFromLinkResolved(k)
    \/ \E k \in DOMAIN inFlight : importDeckFromLinkFailed(k)

SpecStore == InitStore /\ [][NextStore]_vars

----------------------------------------------------------------------------
(* Properties *)

Distinct(ids) == Cardinality(Range(ids)) = Len(ids)

\* the pool cards outside the id list
OutsidePool(ids, arena) ==
    SelectSeq(AvailableCards(arena), LAMBDA c : ~Includes(ids, c.id))

\* fewer pool cards outside the starting list than free slots
PoolTooSmall == Len(OutsidePool(cardIds, preferredArena)) < 8 - Len(cardIds)

Generating == op \in {"generateDeckCandidates", "getBestDeckCompletion"}

\* C1: generateDeckCandidates terminates: a diversity iteration that does not
\* leave the loop changes the candidate list or the exclusion set, so the
\* loop (whose body is a function of these two) cannot repeat itself forever.
C1_LoopProgresses ==
    [][(Generating /\ pc = "loop" /\ pc' = "loop")
         => \/ candidates' # candidates
            \/ ExcludeCards(candidates', usedFirstCards')
                 # ExcludeCards(candidates, usedFirstCards)]_vars

\* C2: when the pool cannot complete the deck, the generator returns the
\* empty list (getBestDeckCompletion: null) and does not fail to return: the
\* diversity iteration that finds no completion leaves the loop with an
\* empty result (a later iteration would meet the same state again).
C2_ExhaustionReturnsEmpty ==
    [][(Generating /\ PoolTooSmall /\ pc = "loop")
         => (pc' = "done" /\ result' = <<>>)]_vars

InRange100(total) == 0 <= total /\ total <= 100 * Unit

\* C3: with weights summing to 1, scoreDeck returns an overall score in
\* [0, 100] (0..1000 tenths) and four sub-score totals in [0, 100].
C3_ScoreInRange ==
    (op = "scoreDeck" /\ pc = "done") =>
        LET s == result[1]
        IN /\ 0 <= s.overall /\ s.overall <= 1000
           /\ InRange100(s.coverage.total)
           /\ InRange100(s.curve.total)
           /\ InRange100(s.role.total)
           /\ InRange100(s.levelFit.total)

C3_Witness ==
    /\ op = "scoreDeck" /\ pc = "done"
    /\ Len(playerLevels) > 0
    /\ Len(cardIds) >= 3
    /\ UnknownId \in Range(cardIds)
    /\ result[1].overall > 0

\* the deck with the card at the removed id's position replaced
ReplaceCard(deck, removeCard, addCard) ==
    [i \in DOMAIN deck |-> IF deck[i] = removeCard THEN addCard ELSE deck[i]]

\* C4: every suggestion raises the overall score by more than 1 (10 tenths):
\* scoreBefore is the input deck's score, scoreAfter the score of the deck
\* with removeCard replaced by addCard, improvement their difference.
C4_SuggestionsImprove ==
    (op \in {"suggestCardSwaps", "optimize"} /\ pc = "done") =>
        \A i \in DOMAIN swapSuggestions :
            LET sg == swapSuggestions[i]
                before == scoreDeck(cardIds, playerLevels, config).overall
                after == scoreDeck(ReplaceCard(cardIds, sg.removeCard, sg.addCard),
                                   playerLevels, config).overall
            IN /\ sg.scoreBefore = before
               /\ sg.scoreAfter = after
               /\ sg.improvement = after - before
               /\ after - before > 10

C4_Witness ==
    /\ op = "suggestCardSwaps" /\ pc = "done"
    /\ Len(swapSuggestions) >= 2
    /\ preferredArena # NoArena

\* C5: the optimized deck of an accepted Optimize request has 8 pairwise
\* distinct ids.
C5_OptimizedDeckDistinct ==
    (op = "optimize" /\ pc = "done" /\ result[1].status = 200) =>
        Len(optimizedDeck) = 8 /\ Distinct(optimizedDeck)

\* a complete deck of 8 distinct ids that misses no required role
CompleteDeck(c) ==
    /\ Len(c.cards) = 8
    /\ Distinct(c.cards)
    /\ getMissingRoles(c.cards) = <<>>

\* the free slots suffice for the missing roles and the pool has every role
RolesSuppliable ==
    /\ 8 - Len(cardIds) >= Len(getMissingRoles(cardIds))
    /\ \A i \in DOMAIN REQUIRED_ROLES :
           AnyHasRole(AvailableCards(preferredArena), REQUIRED_ROLES[i])

\* C6 (as claimed): whenever the free slots suffice and the pool has a card
\* of every required role, getBestDeckCompletion returns a deck of 8
\* distinct ids with no missing required role (with maxCandidates = 1 it
\* returns as soon as its primary completion has produced a deck).
C6_AsClaimed ==
    (op = "getBestDeckCompletion" /\ pc # "start" /\ RolesSuppliable)
        => (pc = "done" /\ Len(result) = 1 /\ CompleteDeck(result[1]))

\* C6 (amended): the same, for pools that also hold at least 8 - |start|
\* cards outside the starting list.
C6_CompletionCoversRoles ==
    (op = "getBestDeckCompletion" /\ pc # "start" /\ RolesSuppliable /\ ~PoolTooSmall)
        => (pc = "done" /\ Len(result) = 1 /\ CompleteDeck(result[1]))

C6_Witness ==
    /\ op = "getBestDeckCompletion" /\ pc = "done"
    /\ RolesSuppliable /\ ~PoolTooSmall
    /\ Len(getMissingRoles(cardIds)) >= 2
    /\ Len(result) = 1

\* C7: every returned candidate has 8 distinct ids, starts with the starting
\* ids in their order, and lists the added ids in order in addedCards.
C7_CandidateShape ==
    (Generating /\ pc = "done") =>
        \A k \in DOMAIN result :
            LET c == result[k]
                n == Len(cardIds)
            IN /\ Len(c.cards) = 8
               /\ Distinct(c.cards)
               /\ SubSeq(c.cards, 1, n) = cardIds
               /\ Len(c.addedCards) = 8 - n
               /\ \A i \in 1..(8 - n) : c.addedCards[i].cardId = c.cards[n + i]

C7_Witness ==
    /\ op = "generateDeckCandidates" /\ pc = "done"
    /\ Len(cardIds) \in 1..6
    /\ Len(result) >= 2

C9_SortedAndCapped ==
    (Generating /\ pc = "done") =>
        /\ Len(result) <= maxCandidates
        /\ \A i, j \in DOMAIN result :
               i < j => result[i].score.overall >= result[j].score.overall

C9_Witness ==
    /\ op = "generateDeckCandidates" /\ pc = "done"
    /\ Len(result) >= 2
    /\ result # candidates

\* the ids a completed deck holds beyond the request's ids
AddedIds(deck) == {deck[i] : i \in (Len(cardIds) + 1)..Len(deck)}

\* C10: with preferredArena = a, every card added by generateDeckCandidates
\* and by autofillDeck has unlock arena <= a.
C10_ArenaRespected ==
    (pc = "done" /\ preferredArena # NoArena) =>
        /\ Generating =>
              \A k \in DOMAIN result :
                  \A id \in AddedIds(result[k].cards) :
                      allCards[id].arena <= preferredArena
        /\ op = "autofillDeck" =>
              \A id \in AddedIds(result[1].deck) :
                  allCards[id].arena <= preferredArena

C10_Witness ==
    /\ op = "generateDeckCandidates" /\ pc = "done"
    /\ preferredArena # NoArena
    /\ Len(result) >= 2
    /\ AddedIds(result[2].cards) # {}

\* all suggestions accepted while scanning the removal slots of the request
AcceptedSwaps ==
    AllSwaps(cardIds, getCardsById(cardIds), AvailableCards(preferredArena),
             playerLevels, config, scoreDeck(cardIds, playerLevels, config))

\* C11: suggestCardSwaps returns at most 5 suggestions over all removal
\* slots, ordered by improvement non-increasing; they are accepted
\* suggestions, all of them when at most 5 were accepted, and otherwise no
\* accepted suggestion left out improves more than a returned one.
C11_TopFiveOverall ==
    (op = "suggestCardSwaps" /\ pc = "done") =>
        /\ Len(result) = Min(5, Len(AcceptedSwaps))
        /\ \A i, j \in DOMAIN result :
               i < j => result[i].improvement >= result[j].improvement
        /\ Range(result) \subseteq Range(AcceptedSwaps)
        /\ \A sg \in Range(AcceptedSwaps) \ Range(result) :
               \A i \in DOMAIN result : sg.improvement <= result[i].improvement

C11_Witness ==
    /\ op = "suggestCardSwaps" /\ pc = "done"
    /\ Len(AcceptedSwaps) > 5
    /\ result # Slice(AcceptedSwaps, 0, 5)
    /\ \E i, j \in DOMAIN AcceptedSwaps :
           /\ AcceptedSwaps[i].removeCard = AcceptedSwaps[j].removeCard
           /\ AcceptedSwaps[i] \in Range(result)
           /\ AcceptedSwaps[j] \notin Range(result)

\* some resolvable id of the list names a card that carries the role
Covered(ids, role) ==
    \E k \in DOMAIN ids : ids[k] \in CardIdSet /\ HasRole(allCards[ids[k]], role)

\* the position of a role in the fixed order of the required roles
RolePriority(role) == CHOOSE i \in DOMAIN REQUIRED_ROLES : REQUIRED_ROLES[i] = role

\* C12: the coverage score is 100 * covered / 5 (20 per covered required
\* role) and missingRoles lists exactly the uncovered required roles, each
\* once, in the order win_condition, small_spell, big_spell, air_targeting,
\* tank_killer; the empty list scores 0 with all five roles missing.
C12_CoverageScore ==
    (op = "scoreDeck" /\ pc = "done") =>
        LET c == result[1].coverage
        IN /\ c.total = 20 * Unit * Cardinality({r \in Range(REQUIRED_ROLES) :
                                                    Covered(cardIds, r)})
           /\ Range(c.missingRoles) = {r \in Range(REQUIRED_ROLES) : ~Covered(cardIds, r)}
           /\ \A a, b \in DOMAIN c.missingRoles :
                  a < b => RolePriority(c.missingRoles[a]) < RolePriority(c.missingRoles[b])
           /\ cardIds = <<>> => (c.total = 0 /\ c.missingRoles = REQUIRED_ROLES)

C12_Witness ==
    /\ op = "scoreDeck" /\ pc = "done"
    /\ Covered(cardIds, "big_spell")
    /\ ~Covered(cardIds, "win_condition")
    /\ Len(result[1].coverage.missingRoles) >= 3
    /\ result[1].coverage.total > 0

\* C13: autofillDeck on at most 7 distinct starting ids, with at least as
\* many pool cards outside the starting list as free slots, returns 8
\* pairwise distinct ids that begin with the starting ids in order, and one
\* explanation per added card in the order of addition.
C13_AutofillShape ==
    (op = "autofillDeck" /\ pc = "done" /\ Len(cardIds) <= 7 /\ Distinct(cardIds)
        /\ ~PoolTooSmall) =>
        LET r == result[1]
            n == Len(cardIds)
        IN /\ Len(r.deck) = 8
           /\ Distinct(r.deck)
           /\ SubSeq(r.deck, 1, n) = cardIds
           /\ Len(r.explanations) = 8 - n
           /\ \A i \in 1..(8 - n) : r.explanations[i].cardId = r.deck[n + i]

C13_Witness ==
    /\ op = "autofillDeck" /\ pc = "done"
    /\ Len(cardIds) \in 1..6 /\ Distinct(cardIds)
    /\ preferredArena # NoArena
    /\ ~PoolTooSmall
    /\ Len(OutsidePool(cardIds, preferredArena)) > 8 - Len(cardIds)
    /\ \E i \in DOMAIN cardIds : cardIds[i] \notin CardIdSet \/ allCards[cardIds[i]].arena > preferredArena

\* the request's list misses a required role, has a free slot for every
\* missing role, and the pool has a card of every missing role
MissingRolesSuppliable ==
    /\ getMissingRoles(cardIds) # <<>>
    /\ 8 - Len(cardIds) >= Len(getMissingRoles(cardIds))
    /\ \A r \in Range(getMissingRoles(cardIds)) :
           AnyHasRole(AvailableCards(preferredArena), r)

\* C14: autofillDeck on a role-incomplete list with a free slot for every
\* missing role, and a pool card of every missing role, returns a deck in
\* which every required role is present.
C14_AutofillCoversRoles ==
    (op = "autofillDeck" /\ pc = "done" /\ MissingRolesSuppliable) =>
        \A r \in Range(REQUIRED_ROLES) : Covered(result[1].deck, r)

C14_Witness ==
    /\ op = "autofillDeck" /\ pc = "done"
    /\ MissingRolesSuppliable
    /\ Len(getMissingRoles(cardIds)) >= 2
    /\ 8 - Len(cardIds) = Len(getMissingRoles(cardIds))

\* the required roles no resolvable id of the list carries, in priority order
UncoveredRoles(ids) == SelectSeq(REQUIRED_ROLES, LAMBDA r : ~Covered(ids, r))

\* C15: validateDeck's isValid is true exactly when issues is empty, and
\* issues is, in this order: "Deck has <k> cards, needs exactly 8" iff the
\* list length k is not 8, one issue per missing required role in the order
\* win_condition, small_spell, big_spell, air_targeting, tank_killer, a
\* too-low issue iff the rounded average elixir is below 2.6 and a too-high
\* issue iff it is above 4.3.
C15_ValidateIssues ==
    (op = "validateDeck" /\ pc = "done") =>
        LET r == result[1]
            k == Len(cardIds)
        IN /\ r.isValid <=> r.issues = <<>>
           /\ r.issues =
                 (IF k # 8 THEN <<CountIssue(k)>> ELSE <<>>)
                 \o [i \in DOMAIN UncoveredRoles(cardIds) |->
                        RoleIssue(UncoveredRoles(cardIds)[i])]
                 \o (IF r.averageElixir < 26 THEN <<LowIssue(r.averageElixir)>> ELSE <<>>)
                 \o (IF r.averageElixir > 43 THEN <<HighIssue(r.averageElixir)>> ELSE <<>>)
           /\ k = 2 => r.issues[1] = "Deck has 2 cards, needs exactly 8"

C15_Witness ==
    /\ op = "validateDeck" /\ pc = "done"
    /\ Len(cardIds) = 2
    /\ result[1].averageElixir > 43
    /\ Len(UncoveredRoles(cardIds)) \in 2..4
    /\ Len(result[1].issues) = 2 + Len(UncoveredRoles(cardIds))
    /\ ~result[1].isValid

\* the ids of the list the catalog knows
Resolvable(ids) == SelectSeq(ids, LAMBDA id : id \in CardIdSet)

\* the total elixir of the resolvable ids
TotalElixir(ids) ==
    SumSeq([i \in DOMAIN Resolvable(ids) |-> allCards[Resolvable(ids)[i]].elixir])

\* C17: calculateAverageElixir returns the mean elixir of the resolvable ids
\* rounded to one decimal (in tenths: a nearest tenth of total / count, the
\* unknown ids not counted), 0 when no id resolves, and 2.6 for the costs
\* 4, 4, 1, 1, 4, 2, 3, 2.
C17_AverageElixir ==
    (op = "calculateAverageElixir" /\ pc = "done") =>
        LET r == result[1]
            n == Len(Resolvable(cardIds))
        IN /\ n = 0 => r = 0
           /\ n > 0 => 2 * Abs(10 * TotalElixir(cardIds) - r * n) <= n
           /\ cardIds = <<9, 6, 12, 8, 4, 10, 5, 10>> => r = 26

C17_Witness ==
    /\ op = "calculateAverageElixir" /\ pc = "done"
    /\ UnknownId \in Range(cardIds)
    /\ Len(Resolvable(cardIds)) >= 2
    /\ (10 * TotalElixir(cardIds)) % Len(Resolvable(cardIds)) # 0
    /\ result[1] > 0

\* the suggestions Optimize takes from the ranked list
SwapsToApply == SubSeq(swapSuggestions, 1, Min(maxSwaps, Len(swapSuggestions)))

\* the positions in SwapsToApply of the swaps whose removed id is still in
\* the working deck when their turn comes: no earlier one removed it
AppliedSwaps ==
    {i \in DOMAIN SwapsToApply :
        \A j \in 1..(i - 1) : SwapsToApply[j].removeCard # SwapsToApply[i].removeCard}

\* the k-th smallest element of a set of positions
RECURSIVE KthOf(_, _)
KthOf(S, k) ==
    LET least == CHOOSE x \in S : \A y \in S : x <= y
    IN IF k = 1 THEN least ELSE KthOf(S \ {least}, k - 1)

\* C16: Optimize applies the ranked suggestions in ranked order, at most
\* maxSwaps of them, in place: the optimized deck has 8 positions, a position
\* holds the added id of the applied swap that removed its original id and
\* is unchanged when no applied swap removed it; the swap plan lists exactly
\* the applied swaps in that order; a suggestion whose removed id is no
\* longer in the working deck is skipped and changes nothing.
C16_SwapsAppliedInPlace ==
    (op = "optimize" /\ pc = "done" /\ result[1].status = 200) =>
        /\ Len(optimizedDeck) = 8
        /\ Len(swapPlan) = Cardinality(AppliedSwaps)
        /\ Len(swapPlan) <= maxSwaps
        /\ \A k \in DOMAIN swapPlan :
               LET sg == SwapsToApply[KthOf(AppliedSwaps, k)]
               IN /\ swapPlan[k].remove = sg.removeCard
                  /\ swapPlan[k].add = sg.addCard
                  /\ swapPlan[k].scoreDelta = sg.improvement
        /\ \A p \in DOMAIN cardIds :
               IF \E i \in AppliedSwaps : SwapsToApply[i].removeCard = cardIds[p]
               THEN \E i \in AppliedSwaps :
                        /\ SwapsToApply[i].removeCard = cardIds[p]
                        /\ optimizedDeck[p] = SwapsToApply[i].addCard
               ELSE optimizedDeck[p] = cardIds[p]
        /\ result[1].optimizedDeck = optimizedDeck
        /\ result[1].swapPlan = swapPlan

C16_Witness ==
    /\ op = "optimize" /\ pc = "done" /\ result[1].status = 200
    /\ Len(SwapsToApply) = maxSwaps
    /\ Len(swapSuggestions) > maxSwaps
    /\ Cardinality(AppliedSwaps) >= 2
    /\ Cardinality(AppliedSwaps) < Len(SwapsToApply)

\* the position of a card id in catalog order
CatalogIndex(id) == CHOOSE i \in DOMAIN allCards : allCards[i].id = id

\* the pool cards outside the deck that share a role with the removed card,
\* in the order of the pool
Compatible(removeCard) ==
    SelectSeq(AvailableCards(preferredArena),
              LAMBDA c : /\ ~Includes(cardIds, c.id)
                         /\ SharesRole(c, allCards[removeCard]))

\* the ids of the first five elements of a list of cards
FirstFiveIds(cards) == {cards[i].id : i \in 1..Min(5, Len(cards))}

\* the ids of the five compatible cards that come first in catalog order
FirstFiveInCatalog(removeCard) ==
    {id \in {Compatible(removeCard)[i].id : i \in DOMAIN Compatible(removeCard)} :
        Cardinality({j \in DOMAIN Compatible(removeCard) :
                        CatalogIndex(Compatible(removeCard)[j].id) < CatalogIndex(id)}) < 5}

\* removeCard is in the deck; addCard is a pool card outside the deck that
\* shares a role with it
RoleCompatibleSwap(sg) ==
    /\ Includes(cardIds, sg.removeCard)
    /\ ~Includes(cardIds, sg.addCard)
    /\ \E i \in DOMAIN Compatible(sg.removeCard) :
           Compatible(sg.removeCard)[i].id = sg.addCard

DeckBefore(c, i) == SubSeq(c.cards, 1, Len(c.cards) - Len(c.addedCards) + i - 1)

\* the deck before the i-th added card misses a required role
MissesRole(c, i) == UncoveredRoles(DeckBefore(c, i)) # <<>>

\* missingRoles[0] before the i-th added card
FirstMissing(c, i) == UncoveredRoles(DeckBefore(c, i))[1]

\* the i-th added card carries missingRoles[0] and is recorded with it
FillsFirstMissing(c, i) ==
    /\ c.addedCards[i].role = FirstMissing(c, i)
    /\ HasRole(allCards[c.addedCards[i].cardId], FirstMissing(c, i))

\* the pool holds a card of missingRoles[0] outside the deck before step i
FirstMissingInPool(c, i, pool) ==
    \E k \in DOMAIN pool : /\ ~Includes(DeckBefore(c, i), pool[k].id)
                           /\ HasRole(pool[k], FirstMissing(c, i))

\* the pool of the completion computed in this step of the generator
FilteredPool ==
    SelectSeq(AvailableCards(preferredArena),
              LAMBDA c : c.id \notin ExcludeCards(candidates, usedFirstCards))

PreferenceList(c, i) ==
    LET n == Len(Resolvable(DeckBefore(c, i)))
        total == TotalElixir(DeckBefore(c, i))
    IN IF n > 0 /\ 10 * total > (config.targetElixir + 3) * n
       THEN <<"cycle", "swarm", "support">>
       ELSE IF n > 0 /\ 10 * total < (config.targetElixir - 3) * n
            THEN <<"support", "tank", "anti_swarm">>
            ELSE <<"support", "cycle", "swarm">>

\* the pool holds a card of the role outside the deck before step i
RoleInPool(c, i, pool, role) ==
    \E k \in DOMAIN pool : /\ ~Includes(DeckBefore(c, i), pool[k].id)
                           /\ HasRole(pool[k], role)

\* the roles of the preference list of step i that the pool can supply
SuppliedPreferences(c, i, pool) ==
    SelectSeq(PreferenceList(c, i), LAMBDA r : RoleInPool(c, i, pool, r))

\* C20: at a step whose deck misses no required role, the slot is filled
\* from [cycle, swarm, support] if the mean elixir is above target + 0.3,
\* from [support, tank, anti_swarm] if it is below target - 0.3, otherwise
\* from [support, cycle, swarm]: the role recorded is the first role of that
\* list of which the pool holds a card outside the deck, and the added card
\* carries it.
C20_PreferenceByElixir ==
    [][Len(candidates') > Len(candidates) =>
         LET c == candidates'[Len(candidates')]
         IN \A i \in DOMAIN c.addedCards :
                (~MissesRole(c, i) /\ SuppliedPreferences(c, i, FilteredPool) # <<>>) =>
                    /\ c.addedCards[i].role = SuppliedPreferences(c, i, FilteredPool)[1]
                    /\ HasRole(allCards[c.addedCards[i].cardId],
                               c.addedCards[i].role)]_vars

\* a step filled by preference with a role that is not the first of its list
SkipsFirstPreference(c) ==
    \E i \in DOMAIN c.addedCards :
        /\ ~MissesRole(c, i)
        /\ c.addedCards[i].role \in Range(PreferenceList(c, i))
        /\ c.addedCards[i].role # PreferenceList(c, i)[1]

\* the preference lists used by the recorded completions
PreferenceListsUsed ==
    UNION {{PreferenceList(candidates[k], i) :
                i \in {j \in DOMAIN candidates[k].addedCards :
                           ~MissesRole(candidates[k], j)}} :
           k \in DOMAIN candidates}

C20_Witness ==
    /\ Generating
    /\ \E k \in DOMAIN candidates : SkipsFirstPreference(candidates[k])
    /\ Cardinality(PreferenceListsUsed) >= 2

\* the step was filled from a ranking: for missingRoles[0] or for a role of
\* the preference list
RankedStep(c, i) ==
    \/ MissesRole(c, i) /\ FirstMissingInPool(c, i, FilteredPool)
    \/ SuppliedPreferences(c, i, FilteredPool) # <<>>

\* the positions in the pool of the cards that carry the role recorded at
\* step i and are outside the deck before it
EligibleAt(c, i, pool) ==
    {k \in DOMAIN pool : /\ ~Includes(DeckBefore(c, i), pool[k].id)
                         /\ HasRole(pool[k], c.addedCards[i].role)}

\* the per-candidate score at step i of the pool card at position k
ScoreAt(c, i, pool, k) ==
    scoreCardForRole(pool[k], c.addedCards[i].role, DeckBefore(c, i),
                     playerLevels, config)

\* position k is ranked before position m: higher score, or equal score and
\* earlier in the pool
RankedBefore(scores, k, m) ==
    scores[k] > scores[m] \/ (scores[k] = scores[m] /\ k < m)

\* the place (1 = best) of position k among the eligible positions
PlaceOf(scores, eligible, k) ==
    1 + Cardinality({m \in eligible : RankedBefore(scores, m, k)})

\* the step took the card at place 1 and recorded the cards at places 2..4
ChoiceFollowsRanking(c, i, pool, eligible, scores) ==
    /\ \E k \in eligible : /\ pool[k].id = c.addedCards[i].cardId
                           /\ PlaceOf(scores, eligible, k) = 1
    /\ Len(c.addedCards[i].alternatives) = Min(3, Cardinality(eligible) - 1)
    /\ \A j \in DOMAIN c.addedCards[i].alternatives :
           /\ c.addedCards[i].alternatives[j].cardId # c.addedCards[i].cardId
           /\ \E k \in eligible :
                  /\ pool[k].id = c.addedCards[i].alternatives[j].cardId
                  /\ PlaceOf(scores, eligible, k) = j + 1

RankingRespected(c, i, pool) ==
    ChoiceFollowsRanking(c, i, pool, EligibleAt(c, i, pool),
                         [k \in EligibleAt(c, i, pool) |-> ScoreAt(c, i, pool, k)])

\* C21: at every step of a completion that was filled from a ranking, the
\* added card is a pool card outside the current deck that carries the
\* recorded role and has the maximum per-candidate score among those cards,
\* the earliest in pool order among equals; the alternatives recorded are
\* the next up to 3 cards of the ranking, none of them the added card.
C21_BestRankedChosen ==
    [][Len(candidates') > Len(candidates) =>
         LET c == candidates'[Len(candidates')]
         IN \A i \in DOMAIN c.addedCards :
                RankedStep(c, i) => RankingRespected(c, i, FilteredPool)]_vars

\* a tie for the best score at step i between two eligible pool cards
TieForBest(c, i, pool, eligible, scores) ==
    \E k, m \in eligible :
        /\ k # m /\ scores[k] = scores[m]
        /\ \A n \in eligible : scores[n] <= scores[k]

\* the first candidate has a ranked step with a tie for the best score and
\* a ranked step with three alternatives
C21_Witness ==
    /\ Generating /\ pc = "done" /\ Len(candidates) = 1 /\ maxCandidates = 1
    /\ \E i \in DOMAIN candidates[1].addedCards :
           Len(candidates[1].addedCards[i].alternatives) = 3
    /\ \E i \in DOMAIN candidates[1].addedCards :
           /\ Len(candidates[1].addedCards[i].alternatives) >= 1
           /\ TieForBest(candidates[1], i, AvailableCards(preferredArena),
                         EligibleAt(candidates[1], i, AvailableCards(preferredArena)),
                         [k \in EligibleAt(candidates[1], i, AvailableCards(preferredArena)) |->
                             ScoreAt(candidates[1], i, AvailableCards(preferredArena), k)])

\* the level the player holds the card at: the first entry of the card in
\* the player levels, 0 when there is none
PlayerLevelOf(levels, id) ==
    IF \E i \in DOMAIN levels : levels[i].cardId = id
    THEN levels[CHOOSE i \in DOMAIN levels :
                    /\ levels[i].cardId = id
                    /\ \A j \in 1..(i - 1) : levels[j].cardId # id].level
    ELSE 0

RarityBonus(rarity) ==
    CASE rarity = "common" -> 3
      [] rarity = "rare" -> 2
      [] rarity = "epic" -> 1
      [] rarity = "legendary" -> 0
      [] rarity = "champion" -> 0

RoleAdjustment(role, elixir) ==
    IF role \in {"cycle", "small_spell"} THEN Max(0, 4 - elixir)
    ELSE IF role \in {"win_condition", "tank"} THEN (IF elixir > 3 THEN 2 ELSE 0)
    ELSE 0

\* the overall score of an id list, in tenths
OverallOf(ids) == scoreDeck(ids, playerLevels, config).overall

\* C22: the ranking score of a card for a role is 2 * (overall of the deck
\* with the card - overall of the deck) + the card's player level (0 without
\* one) + 2 * (number of roles - 1) + the rarity bonus (common 3, rare 2,
\* epic 1, legendary 0, champion 0) + the role adjustment (max(0, 4 - elixir)
\* for cycle and small_spell, 2 above 3 elixir for win_condition and tank,
\* else 0); scores in tenths.
C22_CandidateScore ==
    (op = "scoreCardForRole" /\ pc = "done") =>
        result[1] = 2 * (OverallOf(Append(cardIds, rankedCard)) - OverallOf(cardIds))
                    + 10 * PlayerLevelOf(playerLevels, rankedCard)
                    + 10 * 2 * (Len(allCards[rankedCard].roles) - 1)
                    + 10 * RarityBonus(allCards[rankedCard].rarity)
                    + 10 * RoleAdjustment(rankedRole, allCards[rankedCard].elixir)

\* a levelled legendary card scored for win_condition with a positive role
\* adjustment, lowering the overall score of the deck
C22_Witness ==
    /\ op = "scoreCardForRole" /\ pc = "done"
    /\ allCards[rankedCard].rarity = "legendary"
    /\ PlayerLevelOf(playerLevels, rankedCard) > 0
    /\ RoleAdjustment(rankedRole, allCards[rankedCard].elixir) > 0
    /\ OverallOf(Append(cardIds, rankedCard)) < OverallOf(cardIds)

\* the elixir costs of the cards the id list resolves to
ElixirsOf(ids) == [i \in DOMAIN Resolvable(ids) |-> allCards[Resolvable(ids)[i]].elixir]

\* a (tenths) is the mean of the costs rounded to one decimal, halves up
IsRoundedMean(a, costs) ==
    /\ 2 * Len(costs) * a <= 20 * SumSeq(costs) + Len(costs)
    /\ 20 * SumSeq(costs) + Len(costs) < 2 * Len(costs) * (a + 1)

CountWhere(costs, P(_)) == Cardinality({i \in DOMAIN costs : P(costs[i])})

CycleBonus(cycleCount) ==
    IF cycleCount \in 2..4 THEN 20 ELSE IF cycleCount \in {1, 5} THEN 10 ELSE 0

\* the curve total in points, from the rounded mean in tenths
CurvePoints(a, costs) ==
    (IF config.minElixir <= a /\ a <= config.maxElixir THEN 60 ELSE 30)
    - Min(Abs(a - config.targetElixir), 20)
    + CycleBonus(CountWhere(costs, LAMBDA e : e <= 3))
    - 5 * Max(0, CountWhere(costs, LAMBDA e : e >= 6) - 2)

CurveAsClaimed(curve, costs) ==
    IF costs = <<>>
    THEN curve.total = 0 /\ curve.averageElixir = 0 /\ curve.isInRange = FALSE
    ELSE /\ IsRoundedMean(curve.averageElixir, costs)
         /\ curve.isInRange = (config.minElixir <= curve.averageElixir
                               /\ curve.averageElixir <= config.maxElixir)
         /\ curve.total = Max(0, Min(100, CurvePoints(curve.averageElixir, costs))) * Unit

\* C23: calculateCurveScore of a non-empty card list has avg = the mean
\* elixir rounded to one decimal, isInRange = (minElixir <= avg <= maxElixir)
\* and total = clamp(base - min(10 * |avg - target|, 20) + cycleBonus
\* - 5 * max(0, heavyCount - 2), 0, 100), base 60 in range else 30,
\* cycleBonus 20 for 2..4 cards of elixir <= 3, 10 for 1 or 5, else 0,
\* heavyCount the cards of elixir >= 6; of the empty list it is total 0,
\* averageElixir 0, isInRange false.
C23_CurveScore ==
    (op = "scoreDeck" /\ pc = "done") =>
        CurveAsClaimed(result[1].curve, ElixirsOf(cardIds))

\* a scored list out of range with more than two heavy cards
C23_Witness ==
    /\ op = "scoreDeck" /\ pc = "done"
    /\ ~result[1].curve.isInRange
    /\ result[1].curve.heavyCardCount > 2
    /\ result[1].curve.total > 0

\* the cards the scored id list resolves to
ScoredCards == [i \in DOMAIN Resolvable(cardIds) |-> allCards[Resolvable(cardIds)[i]]]

\* the roles carried by a card of the list
RolesPresentIn(cards) == UNION {Range(cards[i].roles) : i \in DOMAIN cards}

\* the number of cards of the list that carry the role
CarriersOf(cards, role) == Cardinality({i \in DOMAIN cards : HasRole(cards[i], role)})

BothPresent(cards, r1, r2) == {r1, r2} \subseteq RolesPresentIn(cards)

SynergyOf(cards) ==
    (IF BothPresent(cards, "tank", "support") THEN 10 ELSE 0)
  + (IF BothPresent(cards, "swarm", "anti_swarm") THEN 5 ELSE 0)
  + (IF BothPresent(cards, "win_condition", "small_spell") THEN 10 ELSE 0)

\* total * n = min(100, diversity + 30 * multi / n + synergy) * n, in 1/Unit
RoleTotalAsClaimed(total, cards) ==
    total * Len(cards) =
        Min(100 * Unit * Len(cards),
            (Min(5 * Cardinality(RolesPresentIn(cards)), 35) + SynergyOf(cards))
                * Unit * Len(cards)
            + 30 * Unit * Cardinality({i \in DOMAIN cards : Len(cards[i].roles) > 1}))

\* C24: calculateRoleScore returns total = min(100, min(5 * distinct roles
\* present, 35) + 30 * (cards with more than one role / deck size) +
\* synergy), synergy = 10 for tank with support + 5 for swarm with
\* anti_swarm + 10 for win_condition with small_spell, and roleDistribution
\* maps each present role to the number of cards carrying it.
C24_RoleScore ==
    (op = "scoreDeck" /\ pc = "done" /\ ScoredCards # <<>>) =>
        /\ RoleTotalAsClaimed(result[1].role.total, ScoredCards)
        /\ result[1].role.synergyBonus = SynergyOf(ScoredCards)
        /\ DOMAIN result[1].role.roleDistribution = RolesPresentIn(ScoredCards)
        /\ \A r \in RolesPresentIn(ScoredCards) :
               result[1].role.roleDistribution[r] = CarriersOf(ScoredCards, r)

\* a scored deck with the three synergies, more than seven distinct roles
\* and a role carried by three cards
C24_Witness ==
    /\ op = "scoreDeck" /\ pc = "done"
    /\ result[1].role.synergyBonus = 25
    /\ Cardinality(RolesPresentIn(ScoredCards)) > 7
    /\ \E r \in RolesPresentIn(ScoredCards) : result[1].role.roleDistribution[r] >= 3

\* the level of a card in the map built from the player levels (the last
\* entry of a card id is the one the map keeps), 1 when the map has none
MapLevelOr1(levels, id) ==
    IF \E i \in DOMAIN levels : levels[i].cardId = id
    THEN levels[CHOOSE i \in DOMAIN levels :
                    /\ levels[i].cardId = id
                    /\ \A j \in (i + 1)..Len(levels) : levels[j].cardId # id].level
    ELSE 1

LevelsOfScored == [i \in DOMAIN ScoredCards |-> MapLevelOr1(playerLevels, ScoredCards[i].id)]

\* floor of the square root, for the standard deviation in hundredths
FloorRoot(x) == CHOOSE r \in 0..(100 * 14 * 8) : r * r <= x /\ x < (r + 1) * (r + 1)

\* 50 * mean / 14 + max(0, 30 - 10 * stddev) - min(5 * under, 20), in
\* 1/Unit, of n levels with the given sum, sum of squares and count below
\* 11; n * stddev = sqrt(n * sumSq - sum^2), taken to 1/100
LevelPoints(n, sum, sumSq, under) ==
    (50 * Unit * sum) \div (14 * n)
    + Max(0, 30 * Unit - (Unit * FloorRoot(10000 * (n * sumSq - sum * sum))) \div (10 * n))
    - Min(5 * under, 20) * Unit

LevelFitAsClaimed(fit, ls) ==
    /\ fit.underleveledCount = Cardinality({i \in DOMAIN ls : ls[i] < 11})
    /\ fit.total = Max(0, Min(100 * Unit,
                     LevelPoints(Len(ls), SumSeq(ls),
                                 SumSeq([i \in DOMAIN ls |-> ls[i] * ls[i]]),
                                 Cardinality({i \in DOMAIN ls : ls[i] < 11}))))

\* C25: calculateLevelFitScore is neutral (total 50, averageLevel 0) without
\* player levels or without cards; otherwise a card's level is its entry in
\* the level map or 1, underleveledCount counts the levels below 11 and
\* total = clamp(50 * mean / 14 + max(0, 30 - 10 * stddev) - min(5 *
\* underleveledCount, 20), 0, 100); 8 cards at level 14 give 80 and 8 cards
\* at level 5 give less than 50.
C25_LevelFitScore ==
    (op = "scoreDeck" /\ pc = "done") =>
        /\ (playerLevels = <<>> \/ ScoredCards = <<>>) =>
               /\ result[1].levelFit.total = 50 * Unit
               /\ result[1].levelFit.averageLevel = 0
        /\ (playerLevels # <<>> /\ ScoredCards # <<>>) =>
               LevelFitAsClaimed(result[1].levelFit, LevelsOfScored)
        /\ (Len(ScoredCards) = 8 /\ Range(LevelsOfScored) = {14} /\ playerLevels # <<>>) =>
               result[1].levelFit.total = 80 * Unit
        /\ (Len(ScoredCards) = 8 /\ Range(LevelsOfScored) = {5} /\ playerLevels # <<>>) =>
               result[1].levelFit.total < 50 * Unit

\* a scored list with a card absent from the level map, a card held at two
\* levels in the player levels, and levels that differ
C25_Witness ==
    /\ op = "scoreDeck" /\ pc = "done"
    /\ playerLevels # <<>>
    /\ \E i \in DOMAIN ScoredCards :
           \A j \in DOMAIN playerLevels : playerLevels[j].cardId # ScoredCards[i].id
    /\ \E i \in DOMAIN ScoredCards : \E j, k \in DOMAIN playerLevels :
           /\ j < k /\ playerLevels[j].cardId = ScoredCards[i].id
           /\ playerLevels[k].cardId = ScoredCards[i].id
           /\ playerLevels[j].level # playerLevels[k].level
    /\ Cardinality(Range(LevelsOfScored)) >= 3
    /\ result[1].levelFit.total \notin {0, 50 * Unit, 100 * Unit}

\* C26: whenever POST /deck/optimize applies at least one swap to a valid
\* deck of 8 cards, the overall score of the optimized deck is strictly
\* greater than that of the original deck (scores.improvement > 0), for
\* every maxSwaps.
C26_OptimizeImproves ==
    (op = "optimize" /\ pc = "done" /\ result[1].status = 200
        /\ Len(result[1].swapPlan) >= 1) =>
        /\ result[1].improvement > 0
        /\ scoreDeck(result[1].optimizedDeck, playerLevels, DEFAULT_SCORING_CONFIG).overall
               > scoreDeck(cardIds, playerLevels, DEFAULT_SCORING_CONFIG).overall

\* the required roles the starting list misses and the pool can supply with
\* a card outside the starting list
SuppliableGaps(start, pool) ==
    {r \in Range(REQUIRED_ROLES) :
        /\ ~Covered(start, r)
        /\ \E k \in DOMAIN pool : ~Includes(start, pool[k].id) /\ HasRole(pool[k], r)}

\* C27: when a single completion returns a deck and the free slots
\* (8 - |start|) are at least the number of missing required roles the pool
\* can supply with a card outside the deck, the returned deck covers every
\* one of those roles, also when an earlier role of the fixed order has no
\* card in the pool.
C27_SuppliableRolesCovered ==
    [][Len(candidates') > Len(candidates) =>
         (8 - Len(cardIds) >= Cardinality(SuppliableGaps(cardIds, FilteredPool)) =>
              \A r \in SuppliableGaps(cardIds, FilteredPool) :
                  Covered(candidates'[Len(candidates')].cards, r))]_vars

\* the store fields other than currentDeck
StoreRest == <<lastAutofillResult, lastOptimizeResult, isAutofilling, isOptimizing,
               error, inFlight>>

\* the step appends one card the deck does not hold to a deck of fewer
\* than 8 cards
AddsNewCard ==
    /\ Len(storeDeck) < 8
    /\ Len(storeDeck') = Len(storeDeck) + 1
    /\ SubSeq(storeDeck', 1, Len(storeDeck)) = storeDeck
    /\ storeDeck'[Len(storeDeck')] \notin Range(storeDeck)

\* the step takes one card out of the deck and keeps the order of the rest
RemovesOneCard ==
    \E k \in DOMAIN storeDeck :
        storeDeck' = SubSeq(storeDeck, 1, k - 1) \o SubSeq(storeDeck, k + 1, Len(storeDeck))

\* C28: from the empty deck, after any sequence of addCardToDeck,
\* removeCardFromDeck and clearDeck, currentDeck holds at most 8 cards with
\* pairwise distinct ids; a deck of 8 cards or one that holds the card's id
\* is never added to, and a step that adds or removes a card changes nothing
\* but currentDeck.
C28_DeckEditing ==
    [][/\ Len(storeDeck) <= 8 /\ Distinct(storeDeck)
       /\ Len(storeDeck') <= 8 /\ Distinct(storeDeck')
       /\ \/ UNCHANGED storeVars
          \/ AddsNewCard /\ UNCHANGED StoreRest
          \/ RemovesOneCard /\ UNCHANGED StoreRest
          \/ storeDeck' = <<>>]_vars

\* a deck of 8 cards that were not added in the order of their ids
C28_Witness ==
    /\ op = "store"
    /\ Len(storeDeck) = 8
    /\ storeDeck[1] > storeDeck[8]
    /\ storeDeck[2] < storeDeck[3]

\* C29: with an autofill request in flight and addCardToDeck,
\* removeCardFromDeck, clearDeck and other autofillDeck calls interleaved,
\* the step that applies a successful response keeps every card that was in
\* currentDeck immediately before it, and the deck it applies was computed
\* from the deck held at that moment.
C29_AutofillKeepsHeldCards ==
    [][\A k \in DOMAIN inFlight :
          autofillDeckResolved(k) =>
              /\ Range(storeDeck) \subseteq Range(storeDeck')
              /\ inFlight[k].currentCards = storeDeck]_vars

\* C30: whenever lastOptimizeResult is non-null, its originalDeck is the id
\* list of currentDeck, after any sequence of optimizeDeck, addCardToDeck,
\* removeCardFromDeck, importDeckFromLink, autofillDeck, setDeck, clearDeck
\* and applyOptimization.
C30_ResultMatchesDeck ==
    lastOptimizeResult # None => lastOptimizeResult[1].originalDeck = storeDeck

====
